---- MODULE Spec2Model ----
(***************************************************************************)
(* A model of gh-ns8's module-release commands: the check command          *)
(* (runCheck, ScanForPRs, CheckSummary.ProcessIssue, CheckSummary.Display) *)
(* and the version sequencing functions of internal/module_release.        *)
(***************************************************************************)
EXTENDS Integers, Sequences, FiniteSets, TLC

(* ------------------------------ bounds ------------------------------- *)

\* commits in the compared range
MaxCommits == 2
\* pull request numbers the platform knows
MaxPR == 2
\* issue numbers the platform knows
MaxIssue == 2
\* issue references in the bodies of the pull requests of one run, all together
MaxLinks == 2

Commits == 1..MaxCommits
PRNumbers == 1..MaxPR
IssueNumbers == 1..MaxIssue

\* depth of the goroutine stack, in ProcessIssue frames. A chain of distinct
\* issues never needs more than MaxIssue frames; a deeper one follows a cycle
\* of parents, where the recursion goes on until the runtime ends the program
StackLimit == MaxIssue + 1

(* --------------------------- program constants ----------------------- *)

EmojiOpenIssue == "EmojiOpenIssue"
EmojiClosedIssue == "EmojiClosedIssue"
EmojiInProgress == "EmojiInProgress"
EmojiTesting == "EmojiTesting"
EmojiVerified == "EmojiVerified"

\* label names an issue can carry on the platform
LabelNames == {"verified", "testing", "bug", "ui"}
\* state strings of an issue on the platform
IssueStates == {"open", "closed", "CLOSED", "Closed"}
\* state strings the issues of a check run are drawn from
RunIssueStates == {"open"}
\* label lists the issues of a check run are drawn from
RunLabelLists == {<<>>, <<"testing">>, <<"testing", "verified">>}

\* a platform fact nobody has observed yet is <<>>, an observed one <<value>>
Unknown == <<>>
Known(v) == <<v>>

(* ------------------------------ helpers ------------------------------ *)

Range(s) == {s[i] : i \in DOMAIN s}

SeqsUpTo(S, n) == UNION {[1..k -> S] : k \in 0..n}

\* every order in which a Go map with key set S can be iterated
Perms(S) == {s \in [1..Cardinality(S) -> S] : \A i, j \in DOMAIN s : i # j => s[i] # s[j]}

VARIABLES
    pc,             \* position of the running command
    caller,         \* who called ScanForPRs: "check" or "scan"
    wTagAtHead,     \* platform: the latest stable tag points at the tip of main
    wCommits,       \* platform: the commits of latestStableTag..main, in order
    wCommitPRs,     \* platform: commit -> set of PR numbers (Unknown until first observed)
    wLinks,         \* platform: how many more issue references the PR bodies of this run hold, at most
    wParent,        \* platform: issue -> parent issue number, 0 if none (Unknown until first observed)
    comparison,     \* runCheck: comparison.Commits
    scanCommits,    \* ScanForPRs: comparison.Commits
    scanIdx,        \* ScanForPRs: position of the commit loop
    prMap,          \* ScanForPRs: prMap
    scanRes,        \* ScanForPRs: returned (prNumbers, err)
    scanSeen,       \* history: commit -> what ScanForPRs' loop got from its PR lookup:
                    \*   "failed" or "ok"; "none" while not visited
    scanIncluded,   \* history: the commits whose pull requests ScanForPRs put into prMap
    commitsInPRs,   \* runCheck: commitsInPRs
    markSeen,       \* history: commit -> what runCheck's marking loop got from its PR lookup:
                    \*   "failed", "empty" (no PR) or "prs" (at least one PR); "none" before
    prNumbers,      \* runCheck: prNumbers
    prIdx,          \* runCheck: position of the PR loop
    prSeen,         \* history: PR number -> "none", "failed" (GetPullRequest failed), or what
                    \*   was fetched: "links" (a body with issue references), "label" (none, and
                    \*   a label named translation) or "bare" (neither)
    linkedBy,       \* history: issue -> how many of the pull requests fetched by the PR
                    \*   loop name it in their body
    linkedIssues,   \* runCheck: linkedIssues of the current PR
    issueIdx,       \* runCheck: position of the linked-issue loop
    UnlinkedPRs,    \* CheckSummary.UnlinkedPRs
    TranslationPRs, \* CheckSummary.TranslationPRs
    OrphanCommits,  \* CheckSummary.OrphanCommits
    Issues,         \* CheckSummary.Issues
    stack,          \* ProcessIssue activations, innermost last
    retErr,         \* error returned by the ProcessIssue call that returned last
    lastFetch,      \* history: the platform call made by the latest ProcessIssue step, or "none"
    calls,          \* history: names of the platform operations invoked
    ret,            \* what the command returned: "none", "nil", "error", "crash"
    output,         \* messages printed on stdout
    fnArg,          \* argument of the pure function under test
    fnRes,          \* its result
    flags,          \* command line of create, clean or comment: flags and arguments
    wHost,          \* platform: what the release commands can observe of the repository
    locals,         \* local variables of the running release command
    requests        \* history: the writes asked of the platform, in order

checkVars == <<comparison, commitsInPRs, markSeen, prNumbers, prIdx, prSeen, linkedBy,
               linkedIssues, issueIdx, UnlinkedPRs, TranslationPRs, OrphanCommits,
               Issues, stack, retErr, lastFetch, ret, output>>
scanVars == <<scanCommits, scanIdx, prMap, scanRes, scanSeen, scanIncluded>>
worldVars == <<wTagAtHead, wCommits, wCommitPRs, wLinks, wParent>>
cmdVars == <<flags, wHost, locals, requests>>
fnVars == <<fnArg, fnRes, cmdVars>>
vars == <<pc, caller, calls, worldVars, scanVars, checkVars, fnVars>>

\* what a release command leaves as it is
restVars == <<caller, worldVars, scanVars, comparison, commitsInPRs, markSeen, prNumbers,
              prIdx, prSeen, linkedBy, linkedIssues, issueIdx, UnlinkedPRs, TranslationPRs,
              OrphanCommits, Issues, stack, retErr, lastFetch, fnArg, fnRes>>

(* ------------------- the platform (HostingAPI snapshot) -------------- *)

\* the operations of the client that write to the platform
MutatingOperations == {"CreateRelease", "DeleteRelease", "CreateIssueComment"}

\* GetCommitSHA(repo, "heads/main") and GetCommitSHA(repo, "tags/<latest>")
MainSHA == "sha-main"
TagSHA == IF wTagAtHead THEN "sha-main" ELSE "sha-tag"

\* the PR sets GetPullRequestsForCommit may answer for commit c
PRsOf(c) == IF wCommitPRs[c] = Unknown THEN SUBSET PRNumbers ELSE {wCommitPRs[c][1]}

\* the parents GetParentIssueNumber may answer for issue n
ParentsOf(n) == IF wParent[n] = Unknown THEN 0..MaxIssue ELSE {wParent[n][1]}

\* label lists a pull request is drawn from
PRLabelLists == {<<>>, <<"translation">>, <<"bug", "translation">>, <<"Translation">>}

Put(m, k, v) == [x \in DOMAIN m \cup {k} |-> IF x = k THEN v ELSE m[x]]

PRURL(prNum) == <<"https://github.com/", "repo", "/pull/", prNum>>
CommitURL(sha) == <<"https://github.com/", "repo", "/commit/", sha>>

(* ------------------------------ ScanForPRs --------------------------- *)

ErrNil == "nil"
ErrCompare == "failed to compare commits"
ErrEmptyRange == "no commits found in the specified range"
ErrNoPRs == "no pull requests found for the commits in the specified range"

\* one iteration of the commit loop: prMap after the lookup of one commit
ScanStepDropsOld(m, ok, prs) == IF ok THEN prs ELSE m
ScanStep(m, ok, prs) == IF ok THEN m \cup prs ELSE m

\* what ScanForPRs returns once every commit was visited
ScanReturn(m, order) ==
    IF Cardinality(m) = 0
    THEN [prs |-> <<>>, err |-> ErrNoPRs]
    ELSE [prs |-> order, err |-> ErrNil]

AfterScan == IF caller = "check" THEN "check.scanned" ELSE "done"

ScanCompare ==
    /\ pc = "scan.compare"
    /\ calls' = calls \cup {"CompareCommits"}
    /\ \E ok \in BOOLEAN :
        IF ~ok
        THEN /\ scanRes' = [prs |-> <<>>, err |-> ErrCompare]
             /\ pc' = AfterScan
             /\ UNCHANGED <<scanCommits, scanIdx, prMap>>
        ELSE IF Len(wCommits) = 0
        THEN /\ scanRes' = [prs |-> <<>>, err |-> ErrEmptyRange]
             /\ pc' = AfterScan
             /\ UNCHANGED <<scanCommits, scanIdx, prMap>>
        ELSE /\ scanCommits' = wCommits
             /\ scanIdx' = 1
             /\ prMap' = {}
             /\ pc' = "scan.loop"
             /\ UNCHANGED scanRes
    /\ UNCHANGED <<caller, worldVars, scanSeen, scanIncluded, checkVars, fnVars>>

ScanCommit ==
    /\ pc = "scan.loop"
    /\ scanIdx <= Len(scanCommits)
    /\ calls' = calls \cup {"GetPullRequestsForCommit"}
    /\ LET c == scanCommits[scanIdx] IN
       \E ok \in BOOLEAN : \E prs \in PRsOf(c) :
        /\ prMap' = ScanStep(prMap, ok, prs)
        /\ scanSeen' = [scanSeen EXCEPT ![c] = IF ok THEN "ok" ELSE "failed"]
        /\ scanIncluded' = IF ok /\ prs # {} THEN scanIncluded \cup {c} ELSE scanIncluded
        /\ wCommitPRs' = IF ok THEN [wCommitPRs EXCEPT ![c] = Known(prs)] ELSE wCommitPRs
    /\ scanIdx' = scanIdx + 1
    /\ pc' = IF scanIdx = Len(scanCommits) THEN "scan.end" ELSE "scan.loop"
    /\ UNCHANGED <<caller, wTagAtHead, wCommits, wLinks, wParent, scanCommits, scanRes, checkVars, fnVars>>

ScanFinish ==
    /\ pc = "scan.end"
    /\ \E order \in Perms(prMap) : scanRes' = ScanReturn(prMap, order)
    /\ pc' = AfterScan
    /\ UNCHANGED <<caller, calls, worldVars, scanCommits, scanIdx, prMap, scanSeen, scanIncluded,
                   checkVars, fnVars>>

(* ------------------------- what runCheck prints ---------------------- *)

MsgNothing == "The latest release tag is the HEAD of the main branch, there is nothing to release"
MsgNoCommits == "No commits found in the specified range."
MsgWarning == "Warning: failed to process issue"
MsgSummary == "Summary:"
MsgReady == "All checks passed! Ready to release."

(* ----------------------- CheckSummary.ProcessIssue ------------------- *)

\* strings.Join(elems, sep): the elements with sep between neighbours
RECURSIVE Join(_, _)
Join(elems, sep) ==
    IF Len(elems) = 0 THEN <<>>
    ELSE IF Len(elems) = 1 THEN <<elems[1]>>
    ELSE <<elems[1], sep>> \o Join(Tail(elems), sep)

\* the open/closed emoji of a platform state string
IssueStatusAnyCase(state) ==
    IF state \in {"CLOSED", "closed", "Closed"} THEN EmojiClosedIssue ELSE EmojiOpenIssue
IssueStatus(state) ==
    IF state = "CLOSED" \/ state = "closed" THEN EmojiClosedIssue ELSE EmojiOpenIssue

\* the loop over issue.Labels: (hasVerified, hasTesting, labelNames) after it
RECURSIVE LabelLoop(_, _)
LabelLoop(labels, acc) ==
    IF Len(labels) = 0 THEN acc
    ELSE LET name == Head(labels) IN
         LabelLoop(Tail(labels),
            IF name = "verified" THEN [acc EXCEPT !.hasVerified = TRUE]
            ELSE IF name = "testing" THEN [acc EXCEPT !.hasTesting = TRUE]
            ELSE [acc EXCEPT !.labelNames = Append(@, name)])

LabelScan(labels) ==
    LabelLoop(labels, [hasVerified |-> FALSE, hasTesting |-> FALSE, labelNames |-> <<>>])

\* the progress emoji chosen from the two flags
IssueProgressTestingFirst(hasVerified, hasTesting) ==
    IF hasTesting THEN EmojiTesting
    ELSE IF hasVerified THEN EmojiVerified
    ELSE EmojiInProgress
IssueProgress(hasVerified, hasTesting) ==
    IF hasVerified THEN EmojiVerified
    ELSE IF hasTesting THEN EmojiTesting
    ELSE EmojiInProgress

\* the IssueInfo built from a fetched issue, before the parent lookup
NewIssueInfo(issueNumber, state, labels) ==
    LET scan == LabelScan(labels) IN
    [Number |-> issueNumber,
     Status |-> IssueStatus(state),
     Progress |-> IssueProgress(scan.hasVerified, scan.hasTesting),
     Labels |-> Join(scan.labelNames, " "),
     RefCount |-> 1,
     ParentNumber |-> 0,
     Children |-> <<>>]

\* the map after ProcessIssue found issueNumber already in it
CountAgainResets(issues, issueNumber) == [issues EXCEPT ![issueNumber].RefCount = 1]
CountAgain(issues, issueNumber) == [issues EXCEPT ![issueNumber].RefCount = @ + 1]

AddChild(issues, parentNum, issueNumber) ==
    [issues EXCEPT ![parentNum].Children = Append(@, issueNumber)]

\* an activation that has not fetched its issue yet holds no IssueInfo
NoInfo == [Number |-> 0, Status |-> "", Progress |-> "", Labels |-> <<>>,
           RefCount |-> 0, ParentNumber |-> 0, Children |-> <<>>]

Top == stack[Len(stack)]

\* the platform operations one ProcessIssue activation invokes on an issue not
\* in the map: GetIssue and, once that answered, GetParentIssueNumber
IssueCallsComment(ok) == {"GetIssue", "CreateIssueComment"}
IssueCalls(ok) == IF ok THEN {"GetIssue", "GetParentIssueNumber"} ELSE {"GetIssue"}

\* position of runCheck after the linked-issue loop moved past one issue
AfterIssue ==
    IF issueIdx < Len(linkedIssues) THEN "pi"
    ELSE IF prIdx < Len(prNumbers) THEN "check.pr"
    ELSE "check.report"

\* the activation runCheck starts with summary.ProcessIssue(client, issueNum)
Call(issueNum) == <<[n |-> issueNum, stage |-> "enter", info |-> NoInfo]>>

\* ProcessIssue returns failed (an error or nil) to its caller: the enclosing
\* ProcessIssue activation, or runCheck's linked-issue loop, which prints a
\* warning and goes on. Once the outermost activation has returned, every
\* issue whose parent was looked up is in the map and is not looked up again,
\* so the parent links observed (parents) need not be remembered
Return(failed, parents) ==
    /\ stack' = IF Len(stack) = 1 /\ issueIdx < Len(linkedIssues)
                THEN Call(linkedIssues[issueIdx + 1])
                ELSE SubSeq(stack, 1, Len(stack) - 1)
    /\ wParent' = IF Len(stack) > 1 THEN parents ELSE [n \in IssueNumbers |-> Unknown]
    /\ IF Len(stack) > 1
       THEN /\ retErr' = failed
            /\ UNCHANGED <<pc, output, linkedIssues, issueIdx, prIdx>>
       ELSE /\ retErr' = FALSE
            /\ pc' = AfterIssue
            /\ output' = IF failed THEN output \cup {MsgWarning} ELSE output
            /\ IF issueIdx < Len(linkedIssues)
               THEN /\ issueIdx' = issueIdx + 1
                    /\ UNCHANGED <<linkedIssues, prIdx>>
               ELSE /\ issueIdx' = 0
                    /\ linkedIssues' = <<>>
                    /\ prIdx' = prIdx + 1

piFrame == <<caller, wTagAtHead, wCommits, wCommitPRs, wLinks, scanVars, comparison,
             commitsInPRs, markSeen, prNumbers, prSeen, linkedBy, UnlinkedPRs,
             TranslationPRs, OrphanCommits, fnVars>>

ProcessIssueExisting ==
    /\ pc = "pi"
    /\ Top.stage = "enter"
    /\ Top.n \in DOMAIN Issues
    /\ Issues' = CountAgain(Issues, Top.n)
    /\ lastFetch' = "none"
    /\ Return(FALSE, wParent)
    /\ UNCHANGED <<piFrame, calls, ret>>

\* ProcessIssue on a number not in the map, up to its return or to the call
\* that processes the parent
ProcessIssueNew ==
    /\ pc = "pi"
    /\ Top.stage = "enter"
    /\ Top.n \notin DOMAIN Issues
    /\ \E ok \in BOOLEAN :
        /\ calls' = calls \cup IssueCalls(ok)
        /\ IF ~ok
           THEN /\ lastFetch' = "GetIssue"
                /\ Return(TRUE, wParent)
                /\ UNCHANGED <<Issues, ret>>
           ELSE \E state \in RunIssueStates, labels \in RunLabelLists :
                \E pok \in BOOLEAN : \E parentNum \in ParentsOf(Top.n) :
                LET fetched == NewIssueInfo(Top.n, state, labels)
                    info == [fetched EXCEPT !.ParentNumber = parentNum]
                    parents == IF pok THEN [wParent EXCEPT ![Top.n] = Known(parentNum)]
                               ELSE wParent
                IN
                /\ lastFetch' = "GetParentIssueNumber"
                /\ IF pok /\ parentNum > 0
                   THEN IF parentNum \notin DOMAIN Issues
                        THEN IF Len(stack) >= StackLimit
                             THEN /\ ret' = "crash"
                                  /\ pc' = "done"
                                  /\ wParent' = parents
                                  /\ UNCHANGED <<stack, Issues, retErr, output, linkedIssues,
                                                 issueIdx, prIdx>>
                             ELSE /\ stack' = Append([stack EXCEPT ![Len(stack)] =
                                                        [n |-> Top.n, stage |-> "ret", info |-> info]],
                                                     [n |-> parentNum, stage |-> "enter", info |-> NoInfo])
                                  /\ wParent' = parents
                                  /\ UNCHANGED <<pc, ret, Issues, retErr, output, linkedIssues,
                                                 issueIdx, prIdx>>
                        ELSE /\ Issues' = Put(AddChild(Issues, parentNum, Top.n), Top.n, info)
                             /\ Return(FALSE, parents)
                             /\ UNCHANGED ret
                   ELSE /\ Issues' = Put(Issues, Top.n, fetched)
                        /\ Return(FALSE, parents)
                        /\ UNCHANGED ret
    /\ UNCHANGED piFrame

\* the call that processed the parent has returned
ProcessIssueParentDone ==
    /\ pc = "pi"
    /\ Top.stage = "ret"
    /\ Issues' = Put(IF retErr THEN Issues
                     ELSE AddChild(Issues, Top.info.ParentNumber, Top.n),
                     Top.n, Top.info)
    /\ lastFetch' = "none"
    /\ Return(FALSE, wParent)
    /\ UNCHANGED <<piFrame, calls, ret>>

(* -------------------------- CheckSummary.Display --------------------- *)

\* the loop that decides allVerified, over the issue map in iteration order
\* `order`; it dereferences cs.Issues[childNum] without a presence test
RECURSIVE ChildrenVerified(_, _)
ChildrenVerified(issues, children) ==
    IF Len(children) = 0 THEN [panic |-> FALSE, ok |-> TRUE]
    ELSE IF Head(children) \notin DOMAIN issues THEN [panic |-> TRUE, ok |-> FALSE]
    ELSE IF issues[Head(children)].Progress # EmojiVerified THEN [panic |-> FALSE, ok |-> FALSE]
    ELSE ChildrenVerified(issues, Tail(children))

RECURSIVE VerifiedLoop(_, _, _)
VerifiedLoop(issues, order, allVerified) ==
    IF Len(order) = 0 THEN [panic |-> FALSE, ok |-> allVerified]
    ELSE LET info == issues[Head(order)] IN
         IF Len(info.Children) > 0
         THEN LET c == ChildrenVerified(issues, info.Children) IN
              IF c.panic THEN c
              ELSE VerifiedLoop(issues, Tail(order), allVerified /\ c.ok)
         ELSE IF info.Progress # EmojiVerified
         THEN [panic |-> FALSE, ok |-> FALSE]
         ELSE VerifiedLoop(issues, Tail(order), allVerified)

AllVerifiedChecksParent(issues, order) ==
    LET r == VerifiedLoop(issues, order, TRUE) IN
    [r EXCEPT !.ok = @ /\ \A n \in DOMAIN issues : issues[n].Progress = EmojiVerified]
AllVerified(issues, order) == VerifiedLoop(issues, order, TRUE)

\* "All checks passed! Ready to release." is printed
ReadyIgnoresUnlinked(unlinked, allVerified) == allVerified
ReadyIgnoresIssues(unlinked, allVerified) == Len(unlinked) = 0
Ready(unlinked, allVerified) == Len(unlinked) = 0 /\ allVerified

(* -------------------------------- runCheck --------------------------- *)


\* the test that ends the run before any comparison
NothingNever(latestSHA, mainSHA) == FALSE
NothingToRelease(latestSHA, mainSHA) == latestSHA = mainSHA

\* the test of the marking loop for one commit
MarkedAlways(ok, prs) == TRUE
Marked(ok, prs) == ok /\ Cardinality(prs) > 0

\* the orphan loop: the URLs of the commits not marked, in range order
OrphansAll(commits, marked) == [i \in DOMAIN commits |-> CommitURL(commits[i])]
Orphans(commits, marked) ==
    LET unmarked == SelectSeq(commits, LAMBDA c : c \notin marked) IN
    [i \in DOMAIN unmarked |-> CommitURL(unmarked[i])]

\* the loop over pr.Labels
IsTranslationAnyCase(labels) ==
    \E i \in DOMAIN labels : labels[i] \in {"translation", "Translation"}
IsTranslation(labels) == \E i \in DOMAIN labels : labels[i] = "translation"

Fail ==
    /\ ret' = "error"
    /\ pc' = "done"

\* GetOrValidateRepo and GetLatestRelease(client, repo, true)
CheckResolve ==
    /\ pc = "check.start"
    /\ \E r \in {"repo", "release", "ok"} :
        /\ calls' = IF r = "repo" THEN calls \cup {"GetRepository"}
                    ELSE calls \cup {"GetRepository", "ListReleases"}
        /\ IF r = "ok"
           THEN pc' = "check.sha" /\ UNCHANGED ret
           ELSE Fail
    /\ UNCHANGED <<caller, worldVars, scanVars, comparison, commitsInPRs, markSeen,
                   prNumbers, prIdx, prSeen, linkedBy, linkedIssues, issueIdx, UnlinkedPRs,
                   TranslationPRs, OrphanCommits, Issues, stack, retErr,
                   lastFetch, output, fnVars>>

\* GetReleaseCommitSHA, GetMainBranchSHA and the test latestSHA == mainSHA
CheckHead ==
    /\ pc = "check.sha"
    /\ calls' = calls \cup {"GetCommitSHA"}
    /\ \E ok \in BOOLEAN :
        IF ~ok
        THEN Fail /\ UNCHANGED output
        ELSE IF NothingToRelease(TagSHA, MainSHA)
        THEN /\ output' = output \cup {MsgNothing}
             /\ ret' = "nil"
             /\ pc' = "done"
        ELSE /\ pc' = "check.compare"
             /\ UNCHANGED <<ret, output>>
    /\ UNCHANGED <<caller, worldVars, scanVars, comparison, commitsInPRs, markSeen,
                   prNumbers, prIdx, prSeen, linkedBy, linkedIssues, issueIdx, UnlinkedPRs,
                   TranslationPRs, OrphanCommits, Issues, stack, retErr,
                   lastFetch, fnVars>>

\* NewCheckSummary, CompareCommits and the test for an empty range
CheckCompare ==
    /\ pc = "check.compare"
    /\ calls' = calls \cup {"CompareCommits"}
    /\ \E ok \in BOOLEAN :
        IF ~ok
        THEN Fail /\ UNCHANGED <<output, comparison>>
        ELSE /\ comparison' = wCommits
             /\ IF Len(wCommits) = 0
                THEN /\ output' = output \cup {MsgNoCommits}
                     /\ ret' = "nil"
                     /\ pc' = "done"
                ELSE /\ pc' = "scan.compare"
                     /\ UNCHANGED <<ret, output>>
    /\ UNCHANGED <<caller, worldVars, scanVars, commitsInPRs, markSeen,
                   prNumbers, prIdx, prSeen, linkedBy, linkedIssues, issueIdx, UnlinkedPRs,
                   TranslationPRs, OrphanCommits, Issues, stack, retErr,
                   lastFetch, fnVars>>

\* ScanForPRs has returned: its locals are gone, runCheck tests err
CheckScanned ==
    /\ pc = "check.scanned"
    /\ IF scanRes.err # ErrNil
       THEN Fail /\ UNCHANGED <<prNumbers, prIdx>>
       ELSE /\ prNumbers' = scanRes.prs
            /\ prIdx' = 1
            /\ pc' = "check.mark"
            /\ UNCHANGED ret
    /\ scanCommits' = <<>>
    /\ scanIdx' = 0
    /\ prMap' = {}
    /\ scanRes' = [prs |-> <<>>, err |-> ErrNil]
    /\ scanSeen' = [c \in Commits |-> "none"]
    /\ UNCHANGED scanIncluded
    /\ UNCHANGED <<caller, calls, worldVars, comparison, commitsInPRs, markSeen,
                   prSeen, linkedBy, linkedIssues, issueIdx, UnlinkedPRs,
                   TranslationPRs, OrphanCommits, Issues, stack, retErr,
                   lastFetch, output, fnVars>>

\* the loop that marks the commits that belong to PRs
CheckMark ==
    /\ pc = "check.mark"
    /\ calls' = calls \cup {"GetPullRequestsForCommit"}
    /\ \E failed \in SUBSET Range(comparison) :
       \E prs \in [Range(comparison) -> SUBSET PRNumbers] :
        /\ \A c \in Range(comparison) :
              IF c \in failed THEN prs[c] = {} ELSE prs[c] \in PRsOf(c)
        /\ commitsInPRs' = {c \in Range(comparison) : Marked(c \notin failed, prs[c])}
        /\ markSeen' = [c \in Commits |->
                          IF c \notin Range(comparison) THEN "none"
                          ELSE IF c \in failed THEN "failed"
                          ELSE IF prs[c] = {} THEN "empty" ELSE "prs"]
        /\ wCommitPRs' = [c \in DOMAIN wCommitPRs |-> Unknown]
    /\ pc' = "check.pr"
    /\ UNCHANGED <<caller, wTagAtHead, wCommits, wLinks, wParent, scanVars, comparison,
                   prNumbers, prIdx, prSeen, linkedBy, linkedIssues, issueIdx, UnlinkedPRs,
                   TranslationPRs, OrphanCommits, Issues, stack, retErr,
                   lastFetch, ret, output, fnVars>>

\* one iteration of the PR loop, up to the first call of ProcessIssue
CheckPR ==
    /\ pc = "check.pr"
    /\ calls' = calls \cup {"GetPullRequest"}
    /\ LET prNum == prNumbers[prIdx]
           nextPR == IF prIdx < Len(prNumbers) THEN "check.pr" ELSE "check.report" IN
       \E ok \in BOOLEAN :
        IF ~ok
        THEN /\ prSeen' = [prSeen EXCEPT ![prNum] = "failed"]
             /\ UNCHANGED linkedBy
             /\ prIdx' = prIdx + 1
             /\ pc' = nextPR
             /\ UNCHANGED <<linkedIssues, issueIdx, UnlinkedPRs, TranslationPRs, stack, wLinks>>
        ELSE \E links \in SeqsUpTo(IssueNumbers, wLinks), labels \in PRLabelLists :
             /\ wLinks' = wLinks - Len(links)
             /\ linkedBy' = [n \in IssueNumbers |->
                                IF n \in Range(links) THEN linkedBy[n] + 1 ELSE linkedBy[n]]
             /\ prSeen' = [prSeen EXCEPT ![prNum] =
                               IF Len(links) > 0 THEN "links"
                               ELSE IF "translation" \in Range(labels) THEN "label"
                               ELSE "bare"]
             /\ IF Len(links) > 0
                THEN /\ linkedIssues' = links
                     /\ issueIdx' = 1
                     /\ stack' = Call(links[1])
                     /\ pc' = "pi"
                     /\ UNCHANGED <<prIdx, UnlinkedPRs, TranslationPRs>>
                ELSE /\ IF IsTranslation(labels)
                        THEN /\ TranslationPRs' = Append(TranslationPRs, PRURL(prNum))
                             /\ UNCHANGED UnlinkedPRs
                        ELSE /\ UnlinkedPRs' = Append(UnlinkedPRs, PRURL(prNum))
                             /\ UNCHANGED TranslationPRs
                     /\ prIdx' = prIdx + 1
                     /\ pc' = nextPR
                     /\ UNCHANGED <<linkedIssues, issueIdx, stack>>
    /\ lastFetch' = "none"
    /\ UNCHANGED <<caller, wTagAtHead, wCommits, wCommitPRs, wParent, scanVars,
                   comparison, commitsInPRs, markSeen,
                   prNumbers, OrphanCommits, Issues, retErr,
                   ret, output, fnVars>>

\* the orphan loop, summary.Display() and return nil
CheckReport ==
    /\ pc = "check.report"
    /\ OrphanCommits' = Orphans(comparison, commitsInPRs)
    /\ \E order \in Perms(DOMAIN Issues) :
        LET v == AllVerified(Issues, order) IN
        IF v.panic
        THEN ret' = "crash" /\ output' = output \cup {MsgSummary}
        ELSE /\ ret' = "nil"
             /\ output' = output \cup {MsgSummary} \cup
                          (IF Ready(UnlinkedPRs, v.ok) THEN {MsgReady} ELSE {})
    /\ pc' = "done"
    /\ lastFetch' = "none"
    /\ wLinks' = 0
    /\ UNCHANGED <<caller, calls, wTagAtHead, wCommits, wCommitPRs, wParent, scanVars, comparison, commitsInPRs, markSeen,
                   prNumbers, prIdx, prSeen, linkedBy, linkedIssues, issueIdx, UnlinkedPRs,
                   TranslationPRs, Issues, stack, retErr, fnVars>>

\* the state of a command that has not run a statement yet
Fresh ==
    /\ wParent = [n \in IssueNumbers |-> Unknown]
    /\ comparison = <<>>
    /\ scanCommits = <<>>
    /\ scanIdx = 0
    /\ prMap = {}
    /\ scanRes = [prs |-> <<>>, err |-> ErrNil]
    /\ scanSeen = [c \in Commits |-> "none"]
    /\ scanIncluded = {}
    /\ commitsInPRs = {}
    /\ markSeen = [c \in Commits |-> "none"]
    /\ prNumbers = <<>>
    /\ prIdx = 0
    /\ prSeen = [p \in PRNumbers |-> "none"]
    /\ linkedBy = [n \in IssueNumbers |-> 0]
    /\ linkedIssues = <<>>
    /\ issueIdx = 0
    /\ UnlinkedPRs = <<>>
    /\ TranslationPRs = <<>>
    /\ OrphanCommits = <<>>
    /\ Issues = <<>>
    /\ stack = <<>>
    /\ retErr = FALSE
    /\ lastFetch = "none"
    /\ calls = {}
    /\ ret = "none"
    /\ output = {}

\* no release command runs
Idle ==
    /\ flags = <<>>
    /\ wHost = <<>>
    /\ locals = <<>>
    /\ requests = <<>>

\* the ranges latestStableTag..main: no commit when the tag is the tip of main
Ranges == {[i \in 1..k |-> i] : k \in 0..MaxCommits}

\* gh ns8 module-release check starts
InitCheck ==
    /\ pc = "check.start"
    /\ caller = "check"
    /\ wTagAtHead \in BOOLEAN
    /\ wCommits \in Ranges
    /\ wTagAtHead => Len(wCommits) = 0
    /\ wCommitPRs = [c \in Commits |-> Unknown]
    /\ wLinks = MaxLinks
    /\ Fresh
    /\ Idle
    /\ fnArg = <<>>
    /\ fnRes = <<>>

NextCheck ==
    \/ CheckResolve
    \/ CheckHead
    \/ CheckCompare
    \/ ScanCompare
    \/ ScanCommit
    \/ ScanFinish
    \/ CheckScanned
    \/ CheckMark
    \/ CheckPR
    \/ ProcessIssueExisting
    \/ ProcessIssueNew
    \/ ProcessIssueParentDone
    \/ CheckReport

SpecCheck == InitCheck /\ [][NextCheck]_vars

(* ----------------------- ScanForPRs called alone --------------------- *)

\* ScanForPRs(client, repo, startRef, endRef) is entered by a caller other
\* than runCheck, on any range of up to MaxCommits commits with any pull
\* requests
InitScan ==
    /\ pc = "scan.compare"
    /\ caller = "scan"
    /\ wTagAtHead = FALSE
    /\ wCommits \in Ranges
    /\ wCommitPRs \in [Commits -> {Known(prs) : prs \in SUBSET PRNumbers}]
    /\ wLinks = 0
    /\ Fresh
    /\ Idle
    /\ fnArg = <<>>
    /\ fnRes = <<>>

NextScan ==
    \/ ScanCompare
    \/ ScanCommit
    \/ ScanFinish

SpecScan == InitScan /\ [][NextScan]_vars

(* --------------- ProcessIssue: the IssueInfo of one issue ------------ *)

\* label lists of up to MaxLabels labels
MaxLabels == 3

NoResult == [fn |-> "none", out |-> <<>>]

\* ProcessIssue has fetched an issue of any state and any labels
InitLabels ==
    /\ pc = "fn"
    /\ caller = "ProcessIssue"
    /\ wTagAtHead = FALSE
    /\ wCommits = <<>>
    /\ wCommitPRs = [c \in Commits |-> Unknown]
    /\ wLinks = 0
    /\ Fresh
    /\ Idle
    /\ fnArg \in [state : IssueStates, labels : SeqsUpTo(LabelNames, MaxLabels)]
    /\ fnRes = NoResult

\* ProcessIssue builds the IssueInfo from the fetched issue
BuildIssueInfo ==
    /\ pc = "fn"
    /\ fnRes' = [fn |-> "NewIssueInfo", out |-> NewIssueInfo(1, fnArg.state, fnArg.labels)]
    /\ pc' = "done"
    /\ UNCHANGED <<caller, calls, worldVars, scanVars, checkVars, fnArg, cmdVars>>

NextLabels == BuildIssueInfo

SpecLabels == InitLabels /\ [][NextLabels]_vars

(* --------------------- testing version sequencing -------------------- *)

\* a string is the sequence of its characters

\* digits of the numbers in the tags explored
MaxDigits == 2

Digits == <<"0", "1", "2", "3", "4", "5", "6", "7", "8", "9">>

IsDigit(c) == \E i \in DOMAIN Digits : Digits[i] = c

DigitValue(c) == (CHOOSE i \in DOMAIN Digits : Digits[i] = c) - 1

\* \d+ against the whole of s
AllDigits(s) == Len(s) > 0 /\ \A i \in DOMAIN s : IsDigit(s[i])

\* strconv.Atoi on a string of digits; it fails beyond the range of int,
\* which the numbers of the tags explored do not reach
RECURSIVE Atoi(_)
Atoi(s) ==
    IF Len(s) = 0 THEN 0
    ELSE Atoi(SubSeq(s, 1, Len(s) - 1)) * 10 + DigitValue(s[Len(s)])

\* the verb %d of fmt.Sprintf on a number that is not negative
RECURSIVE Itoa(_)
Itoa(n) ==
    IF n < 10 THEN <<Digits[n + 1]>>
    ELSE Itoa(n \div 10) \o <<Digits[(n % 10) + 1]>>

HasSuffix(s, suffix) ==
    /\ Len(s) >= Len(suffix)
    /\ SubSeq(s, Len(s) - Len(suffix) + 1, Len(s)) = suffix

\* the longest run of digits s starts with: \d+ is greedy
LeadingDigits(s) ==
    CHOOSE k \in 0..Len(s) :
        /\ \A i \in 1..k : IsDigit(s[i])
        /\ k < Len(s) => ~IsDigit(s[k + 1])

TestingInfix == <<"-", "t", "e", "s", "t", "i", "n", "g", ".">>

ErrTestingFormat == "invalid testing version format"
ErrSemverFormat == "invalid semver format"

\* the places where ^(.*-testing\.)(\d+)$ can split version into its groups
TestingSplits(version) ==
    {i \in 0..Len(version) :
        /\ HasSuffix(SubSeq(version, 1, i), TestingInfix)
        /\ AllDigits(SubSeq(version, i + 1, Len(version)))}

\* num+1
NextTestingLexical(num) == IF num % 10 = 9 THEN num - 9 ELSE num + 1
NextTesting(num) == num + 1

incrementTestingNumber(version) ==
    LET splits == TestingSplits(version) IN
    IF splits = {}
    THEN [name |-> <<>>, err |-> ErrTestingFormat]
    ELSE LET i == CHOOSE k \in splits : \A j \in splits : j <= k
             prefix == SubSeq(version, 1, i)
             num == Atoi(SubSeq(version, i + 1, Len(version)))
         IN [name |-> prefix \o Itoa(NextTesting(num)), err |-> ErrNil]

\* the groups of ^(\d+)\.(\d+)\.(\d+) in version, <<>> when it does not match
SemverTriple(version) ==
    LET a == LeadingDigits(version)
        rest1 == SubSeq(version, a + 2, Len(version))
        b == LeadingDigits(rest1)
        rest2 == SubSeq(rest1, b + 2, Len(rest1))
        c == LeadingDigits(rest2)
    IN IF /\ a > 0 /\ Len(version) > a /\ version[a + 1] = "."
          /\ b > 0 /\ Len(rest1) > b /\ rest1[b + 1] = "."
          /\ c > 0
       THEN <<SubSeq(version, 1, a), SubSeq(rest1, 1, b), SubSeq(rest2, 1, c)>>
       ELSE <<>>

\* patch+1
NextPatchSame(patch) == patch
NextPatch(patch) == patch + 1

incrementPatchAndAddTesting(version) ==
    LET matches == SemverTriple(version) IN
    IF Len(matches) # 3
    THEN [name |-> <<>>, err |-> ErrSemverFormat]
    ELSE LET major == matches[1]
             minor == matches[2]
             patch == Atoi(matches[3])
         IN [name |-> major \o <<".">> \o minor \o <<".">> \o Itoa(NextPatch(patch))
                      \o TestingInfix \o <<"1">>,
             err |-> ErrNil]

\* the tags explored: a head, a middle and a tail
TagHeads ==
    {<<>>,
     <<"1", ".", "0", ".", "0">>,
     <<"1", ".", "2", ".", "9">>,
     <<"0", "1", ".", "2", ".", "1", "9">>,
     <<"v", "1", ".", "0", ".", "0">>,
     <<"1", ".", "0">>,
     <<"1", ".", ".", "0">>,
     <<"2", ".", "0", ".", "0">> \o TestingInfix \o <<"1">>}
TagMiddles ==
    {<<>>,
     TestingInfix,
     <<"-", "t", "e", "s", "t", "i", "n", "g">>,
     <<"-", "T", "e", "s", "t", "i", "n", "g", ".">>,
     <<"-", "r", "c", ".">>}
TagNumbers == SeqsUpTo({"0", "1", "9"}, MaxDigits)
TagTails == TagNumbers \cup {n \o <<"a">> : n \in TagNumbers}
VersionTags == {h \o m \o t : h \in TagHeads, m \in TagMiddles, t \in TagTails}

\* NextTestingRelease has the tag name of the latest release
InitVersion ==
    /\ pc = "fn"
    /\ caller = "NextTestingRelease"
    /\ wTagAtHead = FALSE
    /\ wCommits = <<>>
    /\ wCommitPRs = [c \in Commits |-> Unknown]
    /\ wLinks = 0
    /\ Fresh
    /\ Idle
    /\ fnArg \in VersionTags
    /\ fnRes = NoResult

\* latestRelease.IsPrerelease: return incrementTestingNumber(latestRelease.TagName)
CallIncrementTestingNumber ==
    /\ pc = "fn"
    /\ fnRes' = [fn |-> "incrementTestingNumber", out |-> incrementTestingNumber(fnArg)]
    /\ pc' = "done"
    /\ UNCHANGED <<caller, calls, worldVars, scanVars, checkVars, fnArg, cmdVars>>

\* otherwise: return incrementPatchAndAddTesting(latestRelease.TagName)
CallIncrementPatchAndAddTesting ==
    /\ pc = "fn"
    /\ fnRes' = [fn |-> "incrementPatchAndAddTesting",
                 out |-> incrementPatchAndAddTesting(fnArg)]
    /\ pc' = "done"
    /\ UNCHANGED <<caller, calls, worldVars, scanVars, checkVars, fnArg, cmdVars>>

NextVersion ==
    \/ CallIncrementTestingNumber
    \/ CallIncrementPatchAndAddTesting

SpecVersion == InitVersion /\ [][NextVersion]_vars

(* ------------------------------- IsSemver ---------------------------- *)

Letters ==
    {"a", "b", "c", "d", "e", "f", "g", "h", "i", "j", "k", "l", "m",
     "n", "o", "p", "q", "r", "s", "t", "u", "v", "w", "x", "y", "z",
     "A", "B", "C", "D", "E", "F", "G", "H", "I", "J", "K", "L", "M",
     "N", "O", "P", "Q", "R", "S", "T", "U", "V", "W", "X", "Y", "Z"}

\* [a-zA-Z]
IsLetter(c) == c \in Letters

\* [0-9a-zA-Z-]
IsIdentChar(c) == IsDigit(c) \/ IsLetter(c) \/ c = "-"

\* (0|[1-9][0-9]*) against the whole of s
NumericIdAnyDigits(s) == AllDigits(s)
NumericId(s) ==
    \/ s = <<"0">>
    \/ /\ Len(s) > 0
       /\ IsDigit(s[1]) /\ s[1] # "0"
       /\ \A i \in 2..Len(s) : IsDigit(s[i])

\* [0-9]*[a-zA-Z-][0-9a-zA-Z-]* against the whole of s
AlphanumId(s) ==
    \E k \in DOMAIN s :
        /\ \A i \in 1..(k - 1) : IsDigit(s[i])
        /\ IsLetter(s[k]) \/ s[k] = "-"
        /\ \A i \in (k + 1)..Len(s) : IsIdentChar(s[i])

\* (0|[1-9][0-9]*|[0-9]*[a-zA-Z-][0-9a-zA-Z-]*)
PreId(s) == NumericId(s) \/ AlphanumId(s)

\* [0-9a-zA-Z-]+
BuildId(s) == Len(s) > 0 /\ \A i \in DOMAIN s : IsIdentChar(s[i])

\* the pre-release group: one identifier, then (\.identifier)*
RECURSIVE PreList(_)
PreList(s) ==
    \/ PreId(s)
    \/ \E k \in DOMAIN s :
          /\ s[k] = "."
          /\ PreId(SubSeq(s, 1, k - 1))
          /\ PreList(SubSeq(s, k + 1, Len(s)))

\* the build group: [0-9a-zA-Z-]+(\.[0-9a-zA-Z-]+)*
RECURSIVE BuildList(_)
BuildList(s) ==
    \/ BuildId(s)
    \/ \E k \in DOMAIN s :
          /\ s[k] = "."
          /\ BuildId(SubSeq(s, 1, k - 1))
          /\ BuildList(SubSeq(s, k + 1, Len(s)))

\* ^(0|[1-9][0-9]*)\.(0|[1-9][0-9]*)\.(0|[1-9][0-9]*) against the whole of s
SemverCore(s) ==
    \E a \in DOMAIN s, b \in DOMAIN s :
        /\ a < b /\ s[a] = "." /\ s[b] = "."
        /\ NumericId(SubSeq(s, 1, a - 1))
        /\ NumericId(SubSeq(s, a + 1, b - 1))
        /\ NumericId(SubSeq(s, b + 1, Len(s)))

\* semverRegex.MatchString(version): the core, then the optional group
\* -<pre-release>, then the optional group +<build>, up to the end of the text
IsSemver(version) ==
    \E c1 \in 0..Len(version) : \E c2 \in c1..Len(version) :
        /\ SemverCore(SubSeq(version, 1, c1))
        /\ c2 > c1 => /\ version[c1 + 1] = "-"
                      /\ PreList(SubSeq(version, c1 + 2, c2))
        /\ c2 < Len(version) => /\ version[c2 + 1] = "+"
                                /\ BuildList(SubSeq(version, c2 + 2, Len(version)))

\* the version strings explored: a core, a pre-release part and a build part
SemverCores ==
    {<<>>, <<"1", ".", "2", ".", "3">>, <<"1", ".", "2">>, <<"v", "1", ".", "2", ".", "3">>, <<"0", "1", ".", "2", ".", "3">>, <<"0", ".", "0", ".", "0">>, <<"1", "0", ".", "2", "0", ".", "3", "0">>,
     <<"1", ".", "2", ".", "3", ".", "4">>, <<"1", ".", ".", "3">>, <<"1", ".", "0", "2", ".", "3">>, <<"1", ".", "2", ".", "3", " ">>, <<"1", ".", "2", ".", "x">>}
SemverPres ==
    {<<>>, <<"-">>, <<"-", "t", "e", "s", "t", "i", "n", "g", ".", "1">>, <<"-", "a", "l", "p", "h", "a", ".", "1">>, <<"-", "0">>, <<"-", "0", "1">>, <<"-", "0", "1", "a">>, <<"-", "a", ".", ".", "b">>,
     <<"-", "a", "_", "b">>, <<"-", "-">>, <<"-", "r", "c", ".", "-", ".", "0">>, <<"-", "1", ".">>, <<"-", "x", "-", "y">>}
SemverBuilds ==
    {<<>>, <<"+">>, <<"+", "b", "u", "i", "l", "d", ".", "5">>, <<"+", "0", "0", "1">>, <<"+", "a", "+", "b">>, <<"+", "a", ".", ".", "b">>, <<"+", "-">>, <<"+", "b", "_", "1">>}
SemverStrings == {c \o p \o b : c \in SemverCores, p \in SemverPres, b \in SemverBuilds}

\* a caller holds a version string
InitSemver ==
    /\ pc = "fn"
    /\ caller = "IsSemver"
    /\ wTagAtHead = FALSE
    /\ wCommits = <<>>
    /\ wCommitPRs = [c \in Commits |-> Unknown]
    /\ wLinks = 0
    /\ Fresh
    /\ Idle
    /\ fnArg \in SemverStrings
    /\ fnRes = NoResult

\* IsSemver(version)
CallIsSemver ==
    /\ pc = "fn"
    /\ fnRes' = [fn |-> "IsSemver", out |-> IsSemver(fnArg)]
    /\ pc' = "done"
    /\ UNCHANGED <<caller, calls, worldVars, scanVars, checkVars, fnArg, cmdVars>>

NextSemver == CallIsSemver

SpecSemver == InitSemver /\ [][NextSemver]_vars

(* ------------------------- repository resolution --------------------- *)

ErrNoRepo == "could not determine the repo. Please provide the repo name using the --repo flag"
ErrNS8Name == "invalid NS8 module name"
ErrInvalidRepo == "invalid repo"

\* ns8ModulePattern.MatchString(repo), the pattern ^[^/]+/ns8-
ns8ModulePatternUnanchored(repo) ==
    \E j \in DOMAIN repo : \E k \in j..Len(repo) :
        /\ \A i \in j..k : repo[i] # "/"
        /\ k + 5 <= Len(repo)
        /\ SubSeq(repo, k + 1, k + 5) = <<"/", "n", "s", "8", "-">>
ns8ModulePattern(repo) ==
    \E k \in DOMAIN repo :
        /\ \A i \in 1..k : repo[i] # "/"
        /\ k + 5 <= Len(repo)
        /\ SubSeq(repo, k + 1, k + 5) = <<"/", "n", "s", "8", "-">>

\* ValidateRepository(client, repo): the error, and the platform calls made;
\* found tells whether GetRepository(repo) answers
ValidateRepository(repo, found) ==
    IF ~ns8ModulePattern(repo)
    THEN [err |-> ErrNS8Name, made |-> <<>>]
    ELSE IF ~found
         THEN [err |-> ErrInvalidRepo, made |-> <<"GetRepository">>]
         ELSE [err |-> ErrNil, made |-> <<"GetRepository">>]

\* GetOrValidateRepo(client, repo): current is what GetCurrentRepository
\* answers, found whether GetRepository answers for the resolved repository
GetOrValidateRepo(repo, current, found) ==
    IF repo = <<>> /\ ~current.ok
    THEN [repo |-> <<>>, err |-> ErrNoRepo, made |-> <<"GetCurrentRepository">>]
    ELSE LET resolved == IF repo = <<>> THEN current.repo ELSE repo
             asked == IF repo = <<>> THEN <<"GetCurrentRepository">> ELSE <<>>
             v == ValidateRepository(resolved, found)
         IN [repo |-> IF v.err = ErrNil THEN resolved ELSE <<>>,
             err |-> v.err,
             made |-> asked \o v.made]

\* repository names explored
RepoNames ==
    {<<"N", "e", "t", "h", "S", "e", "r", "v", "e", "r", "/", "n", "s", "8", "-", "m", "a", "i", "l">>, <<"o", "/", "n", "s", "8", "-">>, <<"N", "e", "t", "h", "S", "e", "r", "v", "e", "r", "/", "m", "a", "i", "l">>, <<"n", "s", "8", "-", "m", "a", "i", "l">>, <<"/", "n", "s", "8", "-", "m", "a", "i", "l">>,
     <<"a", "/", "b", "/", "n", "s", "8", "-", "x">>, <<"o", "/", "N", "S", "8", "-", "x">>, <<"o", "/", "n", "s", "8", "m", "a", "i", "l">>, <<"o", "/", "x", "n", "s", "8", "-", "m">>, <<"o", "/", "n", "s", "8", "-", "a", "/", "b">>}

\* what GetCurrentRepository answers: an error, or the owner/name of the
\* repository of the working directory
CurrentRepos == {[ok |-> FALSE, repo |-> <<>>]} \cup {[ok |-> TRUE, repo |-> r] : r \in RepoNames}

\* a command starts with its --repo flag, in some working directory
InitRepo ==
    /\ pc = "fn"
    /\ caller = "GetOrValidateRepo"
    /\ wTagAtHead = FALSE
    /\ wCommits = <<>>
    /\ wCommitPRs = [c \in Commits |-> Unknown]
    /\ wLinks = 0
    /\ Fresh
    /\ fnArg = <<>>
    /\ fnRes = NoResult
    /\ flags \in [repoFlag : RepoNames \cup {<<>>}]
    /\ wHost \in [current : CurrentRepos, found : BOOLEAN]
    /\ locals = <<>>
    /\ requests = <<>>

\* repo, err := module_release.GetOrValidateRepo(client, repoFlag)
CallGetOrValidateRepo ==
    /\ pc = "fn"
    /\ fnRes' = [fn |-> "GetOrValidateRepo",
                 out |-> GetOrValidateRepo(flags.repoFlag, wHost.current, wHost.found)]
    /\ pc' = "done"
    /\ UNCHANGED <<caller, calls, worldVars, scanVars, checkVars, fnArg, cmdVars>>

NextRepo == CallGetOrValidateRepo

SpecRepo == InitRepo /\ [][NextRepo]_vars

(* ---------------------------- the release list ----------------------- *)

\* releases of the repository explored
MaxReleases == 4

\* creation times: createdAt is an RFC 3339 time, of which the digits that
\* differ are kept, always two of them
CreationTimes == (1..MaxReleases) \cup {10}
Stamp(t) == <<Digits[(t \div 10) + 1], Digits[(t % 10) + 1]>>

\* a < b between strings, as Go compares them: byte by byte, and a proper
\* prefix before the longer string
RECURSIVE StrLess(_, _)
StrLess(a, b) ==
    IF b = <<>> THEN FALSE
    ELSE IF a = <<>> THEN TRUE
    ELSE IF a[1] = b[1] THEN StrLess(Tail(a), Tail(b))
    ELSE DigitValue(a[1]) < DigitValue(b[1])

ReleaseTags == {<<"1", ".", "0", ".", "0">>, <<"1", ".", "0", ".", "1", "-", "t", "e", "s", "t", "i", "n", "g", ".", "1">>, <<"1", ".", "0", ".", "1", "-", "t", "e", "s", "t", "i", "n", "g", ".", "2">>, <<"1", ".", "0", ".", "1">>}

\* the releases of a repository as gh release list answers them, the latest
\* created first: tags differ, and so do creation times
RECURSIVE ReleaseListsOf(_, _)
ReleaseListsOf(tags, n) ==
    IF n = 0 THEN {<<>>}
    ELSE LET shorter == ReleaseListsOf(tags, n - 1)
             older == [TagName : tags, IsPrerelease : BOOLEAN,
                       CreatedAt : {Stamp(t) : t \in CreationTimes}]
             fits == {x \in shorter \X older :
                         /\ Len(x[1]) = n - 1
                         /\ \A i \in DOMAIN x[1] :
                               /\ x[1][i].TagName # x[2].TagName
                               /\ StrLess(x[2].CreatedAt, x[1][i].CreatedAt)}
         IN shorter \cup {Append(x[1], x[2]) : x \in fits}
ReleaseLists == ReleaseListsOf(ReleaseTags, MaxReleases)

\* the first n elements of s
Take(s, n) == SubSeq(s, 1, IF n < Len(s) THEN n ELSE Len(s))

\* Client.ListReleases(repo, limit, excludePreReleases), when gh answers
ListReleases(releases, limit, excludePreReleases) ==
    LET Listed(r) == ~(excludePreReleases /\ r.IsPrerelease)
    IN Take(SelectSeq(releases, Listed), limit)

\* Client.ViewRelease(repo, tag): gh fails for a tag that names no release
ViewRelease(releases, tag, ok) ==
    LET named == {i \in DOMAIN releases : releases[i].TagName = tag}
    IN IF ok /\ named # {}
       THEN [ok |-> TRUE, release |-> releases[CHOOSE i \in named : TRUE]]
       ELSE [ok |-> FALSE, release |-> <<>>]

ListLimit == 1000

ErrViewRelease == "failed to view current release"
ErrListReleases == "failed to list releases"
ErrNotInList == "current release not found in release list"
ErrNoPrevious == "no previous release found"
ErrNoPreviousStable == "no previous stable release found"
ErrBounds == "could not find start or end release"

\* the loop that looks for currentTag: the first index that holds it, 0 for -1
RECURSIVE IndexOf(_, _, _)
IndexOf(allReleases, currentTag, i) ==
    IF i > Len(allReleases) THEN 0
    ELSE IF allReleases[i].TagName = currentTag THEN i
    ELSE IndexOf(allReleases, currentTag, i + 1)

\* the loop that looks for the previous stable release from index i on:
\* the index of the first release that is not a pre-release, 0 when it ends
RECURSIVE NextStable(_, _)
NextStable(allReleases, i) ==
    IF i > Len(allReleases) THEN 0
    ELSE IF ~allReleases[i].IsPrerelease THEN i
    ELSE NextStable(allReleases, i + 1)

\* for i := currentIndex + 1; i < len(allReleases); i++
PreviousStableNextOne(allReleases, currentIndex) == currentIndex + 1
PreviousStable(allReleases, currentIndex) == NextStable(allReleases, currentIndex + 1)

\* FindPreviousRelease(client, repo, currentTag); viewOK and listOK tell
\* whether gh answers the two calls
FindPreviousRelease(releases, currentTag, viewOK, listOK) ==
    LET currentRelease == ViewRelease(releases, currentTag, viewOK)
        allReleases == ListReleases(releases, ListLimit, FALSE)
        currentIndex == IndexOf(allReleases, currentTag, 1)
    IN
    IF ~currentRelease.ok THEN [tag |-> <<>>, err |-> ErrViewRelease]
    ELSE IF ~listOK THEN [tag |-> <<>>, err |-> ErrListReleases]
    ELSE IF currentIndex = 0 THEN [tag |-> <<>>, err |-> ErrNotInList]
    ELSE IF currentIndex = Len(allReleases) THEN [tag |-> <<>>, err |-> ErrNoPrevious]
    ELSE IF currentRelease.release.IsPrerelease
    THEN [tag |-> allReleases[currentIndex + 1].TagName, err |-> ErrNil]
    ELSE LET i == PreviousStable(allReleases, currentIndex) IN
         IF i # 0
         THEN [tag |-> allReleases[i].TagName, err |-> ErrNil]
         ELSE [tag |-> <<>>, err |-> ErrNoPreviousStable]

\* the loop that sets startTime or endTime: the CreatedAt of the last release
\* named tag, the empty string when there is none
RECURSIVE CreatedAtOf(_, _, _)
CreatedAtOf(allReleases, tag, time) ==
    IF allReleases = <<>> THEN time
    ELSE CreatedAtOf(Tail(allReleases), tag,
                     IF Head(allReleases).TagName = tag
                     THEN Head(allReleases).CreatedAt ELSE time)

\* r.CreatedAt > startTime && r.CreatedAt <= endTime
InWindowOpenEnd(createdAt, startTime, endTime) ==
    StrLess(startTime, createdAt) /\ StrLess(createdAt, endTime)
InWindow(createdAt, startTime, endTime) ==
    StrLess(startTime, createdAt) /\ ~StrLess(endTime, createdAt)

\* the tags of a list of releases, in its order
RECURSIVE TagNames(_)
TagNames(rs) == IF rs = <<>> THEN <<>> ELSE <<Head(rs).TagName>> \o TagNames(Tail(rs))

\* GetPreReleasesBetween(client, repo, startTag, endTag)
GetPreReleasesBetween(releases, startTag, endTag, listOK) ==
    LET allReleases == ListReleases(releases, ListLimit, FALSE)
        startTime == CreatedAtOf(allReleases, startTag, <<>>)
        endTime == CreatedAtOf(allReleases, endTag, <<>>)
        Kept(r) == r.IsPrerelease /\ InWindow(r.CreatedAt, startTime, endTime)
    IN
    IF ~listOK THEN [tags |-> <<>>, err |-> ErrListReleases]
    ELSE IF startTime = <<>> \/ endTime = <<>> THEN [tags |-> <<>>, err |-> ErrBounds]
    ELSE [tags |-> TagNames(SelectSeq(allReleases, Kept)), err |-> ErrNil]

\* a command asks for the release before currentTag
InitPrevious ==
    /\ pc = "fn"
    /\ caller = "FindPreviousRelease"
    /\ wTagAtHead = FALSE
    /\ wCommits = <<>>
    /\ wCommitPRs = [c \in Commits |-> Unknown]
    /\ wLinks = 0
    /\ Fresh
    /\ fnArg \in ReleaseTags
    /\ fnRes = NoResult
    /\ flags = <<>>
    /\ wHost \in [releases : ReleaseLists]
    /\ locals = <<>>
    /\ requests = <<>>

\* previousRelease, err := module_release.FindPreviousRelease(client, repo, currentTag)
CallFindPreviousRelease ==
    /\ pc = "fn"
    /\ \E viewOK \in BOOLEAN, listOK \in BOOLEAN :
          fnRes' = [fn |-> "FindPreviousRelease",
                    out |-> FindPreviousRelease(wHost.releases, fnArg, viewOK, listOK),
                    gh |-> [viewOK |-> viewOK, listOK |-> listOK]]
    /\ pc' = "done"
    /\ UNCHANGED <<caller, calls, worldVars, scanVars, checkVars, fnArg, cmdVars>>

NextPrevious == CallFindPreviousRelease

SpecPrevious == InitPrevious /\ [][NextPrevious]_vars

\* runClean asks for the pre-releases between startTag and endTag
InitBetween ==
    /\ pc = "fn"
    /\ caller = "GetPreReleasesBetween"
    /\ wTagAtHead = FALSE
    /\ wCommits = <<>>
    /\ wCommitPRs = [c \in Commits |-> Unknown]
    /\ wLinks = 0
    /\ Fresh
    /\ fnArg \in [startTag : ReleaseTags, endTag : ReleaseTags]
    /\ fnRes = NoResult
    /\ flags = <<>>
    /\ wHost \in [releases : ReleaseLists]
    /\ locals = <<>>
    /\ requests = <<>>

\* preReleases, err := module_release.GetPreReleasesBetween(client, repo, startTag, endTag)
CallGetPreReleasesBetween ==
    /\ pc = "fn"
    /\ \E listOK \in BOOLEAN :
          fnRes' = [fn |-> "GetPreReleasesBetween",
                    out |-> GetPreReleasesBetween(wHost.releases, fnArg.startTag,
                                                  fnArg.endTag, listOK),
                    gh |-> [listOK |-> listOK]]
    /\ pc' = "done"
    /\ UNCHANGED <<caller, calls, worldVars, scanVars, checkVars, fnArg, cmdVars>>

NextBetween == CallGetPreReleasesBetween

SpecBetween == InitBetween /\ [][NextBetween]_vars

(* ------------------------------- runClean ---------------------------- *)

ErrNoReleases == "no releases found"
ErrNoStable == "no stable release found in the repository"

\* GetLatestRelease(client, repo, excludePreReleases); listOK tells whether
\* gh answers
GetLatestRelease(releases, excludePreReleases, listOK) ==
    LET listed == ListReleases(releases, 1, excludePreReleases) IN
    IF ~listOK THEN [release |-> <<>>, err |-> ErrListReleases]
    ELSE IF Len(listed) = 0 THEN [release |-> <<>>, err |-> ErrNoReleases]
    ELSE [release |-> listed[1], err |-> ErrNil]

\* the --repo flags of the release commands explored, outside a repository
\* directory
RunRepoFlags == {<<"N", "e", "t", "h", "S", "e", "r", "v", "e", "r", "/", "n", "s", "8", "-", "m", "a", "i", "l">>, <<"N", "e", "t", "h", "S", "e", "r", "v", "e", "r", "/", "m", "a", "i", "l">>}
NoCurrentRepo == [ok |-> FALSE, repo |-> <<>>]

MsgNoPreReleases == "No pre-releases found between"
MsgFound == "pre-release(s) to delete between"
MsgDeleted == "pre-release(s) successfully"

\* the releases the platform still holds
Remaining == SelectSeq(wHost.releases, LAMBDA r : r.TagName \notin wHost.deleted)

\* the command ends with an error
CmdFail(msg) ==
    /\ pc' = "done"
    /\ ret' = "error"
    /\ locals' = [locals EXCEPT !.err = msg]

\* runClean, up to the choice of the stable release: the repository, then
\* releaseNameFlag or the latest stable release
CleanResolve ==
    /\ pc = "clean.start"
    /\ \E found \in BOOLEAN, listOK \in BOOLEAN :
          LET repo == GetOrValidateRepo(flags.repoFlag, wHost.current, found)
              latest == GetLatestRelease(Remaining, TRUE, listOK)
          IN
          IF repo.err # ErrNil THEN CmdFail(repo.err)
          ELSE IF flags.releaseNameFlag # <<>>
          THEN /\ locals' = [locals EXCEPT !.stableRelease = flags.releaseNameFlag]
               /\ pc' = "clean.find"
               /\ UNCHANGED ret
          ELSE IF latest.err # ErrNil THEN CmdFail(ErrNoStable)
          ELSE /\ locals' = [locals EXCEPT !.stableRelease = latest.release.TagName]
               /\ pc' = "clean.find"
               /\ UNCHANGED ret
    /\ UNCHANGED <<restVars, calls, output, flags, wHost, requests>>

\* runClean, from the previous release to the list of what is to delete
CleanFind ==
    /\ pc = "clean.find"
    /\ \E viewOK \in BOOLEAN, listOK \in BOOLEAN, betweenOK \in BOOLEAN :
          LET previous == FindPreviousRelease(Remaining, locals.stableRelease, viewOK, listOK)
              between == GetPreReleasesBetween(Remaining, previous.tag,
                                               locals.stableRelease, betweenOK)
          IN
          IF previous.err # ErrNil THEN CmdFail(previous.err) /\ UNCHANGED output
          ELSE IF between.err # ErrNil THEN CmdFail(between.err) /\ UNCHANGED output
          ELSE IF Len(between.tags) = 0
          THEN /\ output' = output \cup {MsgNoPreReleases}
               /\ locals' = [locals EXCEPT !.previousRelease = previous.tag]
               /\ pc' = "done"
               /\ ret' = "nil"
          ELSE /\ output' = output \cup {MsgFound}
               /\ locals' = [locals EXCEPT !.previousRelease = previous.tag,
                                           !.preReleases = between.tags]
               /\ pc' = "clean.delete"
               /\ UNCHANGED ret
    /\ UNCHANGED <<restVars, calls, flags, wHost, requests>>

\* one iteration of the deletion loop; the last one prints the count and
\* returns nil
CleanDelete ==
    /\ pc = "clean.delete"
    /\ LET tag == locals.preReleases[locals.idx + 1]
           last == locals.idx + 1 = Len(locals.preReleases)
       IN
       /\ requests' = Append(requests, [op |-> "DeleteRelease", tag |-> tag])
       /\ \E ok \in BOOLEAN :
             IF ok
             THEN /\ wHost' = [wHost EXCEPT !.deleted = @ \cup {tag}]
                  /\ locals' = [locals EXCEPT !.idx = @ + 1, !.deletedCount = @ + 1]
             ELSE /\ UNCHANGED wHost
                  /\ locals' = [locals EXCEPT !.idx = @ + 1]
       /\ IF last
          THEN pc' = "done" /\ ret' = "nil" /\ output' = output \cup {MsgDeleted}
          ELSE UNCHANGED <<pc, ret, output>>
    /\ UNCHANGED <<restVars, calls, flags>>

\* gh ns8 module-release clean starts
InitClean ==
    /\ pc = "clean.start"
    /\ caller = "clean"
    /\ wTagAtHead = FALSE
    /\ wCommits = <<>>
    /\ wCommitPRs = [c \in Commits |-> Unknown]
    /\ wLinks = 0
    /\ Fresh
    /\ fnArg = <<>>
    /\ fnRes = <<>>
    /\ flags \in [repoFlag : RunRepoFlags, releaseNameFlag : ReleaseTags \cup {<<>>}]
    /\ wHost \in [releases : ReleaseLists, deleted : {{}}, current : {NoCurrentRepo}]
    /\ locals = [stableRelease |-> <<>>, previousRelease |-> <<>>, preReleases |-> <<>>,
                 idx |-> 0, deletedCount |-> 0, err |-> ErrNil]
    /\ requests = <<>>

NextClean ==
    \/ CleanResolve
    \/ CleanFind
    \/ CleanDelete

SpecClean == InitClean /\ [][NextClean]_vars

(* ------------------------------ runCreate ---------------------------- *)

ErrLatestCommit == "could not determine the latest commit sha. Please provide the commit sha using the --release-refs flag"
ErrRepoInfo == "failed to get repository info"
ErrMergeBase == "failed to check if commit is on default branch"
ErrNotOnDefault == "the commit sha is not on the default branch"
ErrLatestList == "failed to get latest release"
ErrLatestSemver == "invalid semver format for the latest release"
ErrReleaseSHA == "failed to get release commit SHA"
ErrMainSHA == "failed to get main branch SHA"
ErrAtHead == "the latest release tag is the HEAD of the main branch"
ErrNoName == "please provide the release name as an argument"
ErrNameSemver == "invalid semver format for release name"
ErrCreate == "failed to create release"
MsgCreated == "created successfully"

\* the commits --release-refs names: one on the default branch, one on a
\* branch that left it at sha-old
CommitSHAs == {"sha-old", "sha-side"}

\* what GetMergeBase(repo, defaultBranch, commitSHA) answers
MergeBaseOf(commitSHA) == "sha-old"

\* mergeBase != commitSHA, negated
OnDefaultBranchAlways(mergeBase, commitSHA) == TRUE
OnDefaultBranch(mergeBase, commitSHA) == mergeBase = commitSHA

NoCommitInfo == [SHA |-> "", Target |-> ""]

\* GetOrValidateCommit(client, repo, commitSHA); tipOK, repoOK and baseOK tell
\* whether GetLatestCommit, GetRepository and GetMergeBase answer
GetOrValidateCommit(commitSHA, tipOK, repoOK, baseOK) ==
    IF commitSHA = ""
    THEN IF ~tipOK
         THEN [info |-> NoCommitInfo, err |-> ErrLatestCommit]
         ELSE [info |-> [SHA |-> MainSHA, Target |-> ""], err |-> ErrNil]
    ELSE IF ~repoOK THEN [info |-> NoCommitInfo, err |-> ErrRepoInfo]
    ELSE IF ~baseOK THEN [info |-> NoCommitInfo, err |-> ErrMergeBase]
    ELSE IF ~OnDefaultBranch(MergeBaseOf(commitSHA), commitSHA)
    THEN [info |-> NoCommitInfo, err |-> ErrNotOnDefault]
    ELSE [info |-> [SHA |-> commitSHA, Target |-> commitSHA], err |-> ErrNil]

\* latestSHA == mainSHA
LatestIsHeadNever(latestSHA, mainSHA) == FALSE
LatestIsHead(latestSHA, mainSHA) == latestSHA = mainSHA

\* NextTestingRelease(client, repo); listOK, tagOK and mainOK tell whether
\* ListReleases and the two GetCommitSHA answer; made names the increment
\* computed
NextTestingRelease(releases, latestSHA, listOK, tagOK, mainOK) ==
    LET listed == ListReleases(releases, 1, FALSE)
        latestRelease == listed[1]
        Failed(e) == [name |-> <<>>, err |-> e, made |-> {}]
    IN
    IF ~listOK THEN Failed(ErrLatestList)
    ELSE IF Len(listed) = 0 THEN Failed(ErrNoReleases)
    ELSE IF ~IsSemver(latestRelease.TagName) THEN Failed(ErrLatestSemver)
    ELSE IF ~tagOK THEN Failed(ErrReleaseSHA)
    ELSE IF ~mainOK THEN Failed(ErrMainSHA)
    ELSE IF LatestIsHead(latestSHA, MainSHA) THEN Failed(ErrAtHead)
    ELSE IF latestRelease.IsPrerelease
    THEN LET r == incrementTestingNumber(latestRelease.TagName)
         IN [name |-> r.name, err |-> r.err, made |-> {"incrementTestingNumber"}]
    ELSE LET r == incrementPatchAndAddTesting(latestRelease.TagName)
         IN [name |-> r.name, err |-> r.err, made |-> {"incrementPatchAndAddTesting"}]

\* strings.Contains(s, c) for a string c of one character
Contains(s, c) == \E i \in DOMAIN s : s[i] = c

\* releaseName != "" && !module_release.IsSemver(releaseName)
NameRejectedNever(releaseName) == FALSE
NameRejected(releaseName) == releaseName # <<>> /\ ~IsSemver(releaseName)

\* err == nil && notes != ""
UseNotesAlways(err, notes) == TRUE
UseNotes(err, notes) == err = ErrNil /\ notes # <<>>

\* issue.Title of issue n
TitleOf(n) == <<"title of", n>>

\* the loop over linkedIssues of one pull request, from position i on: oks[i]
\* tells whether GetIssue answers for linkedIssues[i]; acc holds issueMap and
\* the numbers GetIssue has answered for
RECURSIVE TitleLoop(_, _, _, _)
TitleLoop(links, oks, i, acc) ==
    IF i > Len(links) THEN acc
    ELSE LET issueNum == links[i] IN
         IF issueNum \in DOMAIN acc.issueMap
         THEN TitleLoop(links, oks, i + 1, acc)
         ELSE IF oks[i]
         THEN TitleLoop(links, oks, i + 1,
                        [issueMap |-> Put(acc.issueMap, issueNum, TitleOf(issueNum)),
                         fetched |-> acc.fetched \cup {issueNum}])
         ELSE TitleLoop(links, oks, i + 1, acc)

NotesHeading == "## Linked Issues"

\* the notes: the heading, then a line per entry of issueMap, in the order
\* the map is ranged over; no text for an empty map
FormatNotes(issueMap, order) ==
    IF DOMAIN issueMap = {} THEN <<>>
    ELSE <<NotesHeading>> \o [i \in DOMAIN order |->
                                [issue |-> order[i], title |-> issueMap[order[i]]]]

\* what ScanForPRs(client, repo, previousRelease, "main") returns: an error, or
\* the pull requests of the range, each once, in the order of a map
ScanOutcomes ==
    {[prs |-> <<>>, err |-> e] : e \in {ErrCompare, ErrEmptyRange, ErrNoPRs}}
    \cup {[prs |-> o, err |-> ErrNil] :
             o \in UNION {Perms(S) : S \in (SUBSET PRNumbers) \ {{}}}}

\* runCreate: the repository and the commit
CreateResolve ==
    /\ pc = "create.start"
    /\ \E found \in BOOLEAN, tipOK \in BOOLEAN, repoOK \in BOOLEAN, baseOK \in BOOLEAN :
          LET repo == GetOrValidateRepo(flags.repoFlag, wHost.current, found)
              commit == GetOrValidateCommit(flags.releaseRefsFlag, tipOK, repoOK, baseOK)
          IN
          IF repo.err # ErrNil THEN CmdFail(repo.err)
          ELSE IF commit.err # ErrNil THEN CmdFail(commit.err)
          ELSE /\ locals' = [locals EXCEPT !.repo = repo.repo, !.commitInfo = commit.info]
               /\ pc' = "create.name"
               /\ UNCHANGED ret
    /\ UNCHANGED <<restVars, calls, output, flags, wHost, requests>>

\* runCreate: the release name, given or generated, and its checks
CreateName ==
    /\ pc = "create.name"
    /\ \E listOK \in BOOLEAN, tagOK \in BOOLEAN, mainOK \in BOOLEAN :
          LET given == IF Len(flags.args) > 0 THEN flags.args[1] ELSE <<>>
              isPrerelease == flags.testingFlag \/ Contains(given, "-")
              generate == flags.testingFlag /\ given = <<>>
              next == NextTestingRelease(wHost.releases, wHost.latestSHA,
                                         listOK, tagOK, mainOK)
              releaseName == IF generate THEN next.name ELSE given
          IN
          /\ calls' = IF generate
                      THEN calls \cup {"NextTestingRelease"} \cup next.made
                      ELSE calls
          /\ IF generate /\ next.err # ErrNil THEN CmdFail(next.err)
             ELSE IF releaseName = <<>> /\ ~flags.testingFlag THEN CmdFail(ErrNoName)
             ELSE IF NameRejected(releaseName) THEN CmdFail(ErrNameSemver)
             ELSE /\ locals' = [locals EXCEPT !.releaseName = releaseName,
                                              !.isPrerelease = isPrerelease]
                  /\ pc' = "create.previous"
                  /\ UNCHANGED ret
    /\ UNCHANGED <<restVars, output, flags, wHost, requests>>

\* runCreate: the previous release, for the notes
CreatePrevious ==
    /\ pc = "create.previous"
    /\ \E listOK \in BOOLEAN :
          LET release == GetLatestRelease(wHost.releases, ~locals.isPrerelease, listOK)
              previousRelease == IF release.err = ErrNil
                                 THEN release.release.TagName ELSE <<>>
          IN
          /\ locals' = [locals EXCEPT !.previousRelease = previousRelease]
          /\ pc' = IF flags.withLinkedIssuesFlag /\ previousRelease # <<>>
                   THEN "notes.scan" ELSE "create.release"
    /\ UNCHANGED <<restVars, calls, ret, output, flags, wHost, requests>>

\* generateLinkedIssuesNotes: the scan
NotesScan ==
    /\ pc = "notes.scan"
    /\ \E scanned \in ScanOutcomes :
          IF scanned.err # ErrNil
          THEN /\ locals' = [locals EXCEPT !.notesErr = scanned.err]
               /\ pc' = "create.release"
          ELSE /\ locals' = [locals EXCEPT !.prNumbers = scanned.prs]
               /\ pc' = "notes.pr"
    /\ UNCHANGED <<restVars, calls, ret, output, flags, wHost, requests>>

\* generateLinkedIssuesNotes: one iteration of the loop over the pull
\* requests; the last one formats the notes and returns them
NotesPR ==
    /\ pc = "notes.pr"
    /\ \E ok \in BOOLEAN, links \in SeqsUpTo(IssueNumbers, MaxLinks),
          oks \in [1..MaxLinks -> BOOLEAN] :
          LET acc == [issueMap |-> locals.issueMap, fetched |-> locals.fetched]
              new == IF ok THEN TitleLoop(links, oks, 1, acc) ELSE acc
              last == locals.prIdx + 1 = Len(locals.prNumbers)
          IN
          IF ~last
          THEN /\ locals' = [locals EXCEPT !.prIdx = @ + 1, !.issueMap = new.issueMap,
                                           !.fetched = new.fetched]
               /\ UNCHANGED pc
          ELSE \E order \in Perms(DOMAIN new.issueMap) :
                  /\ locals' = [locals EXCEPT !.prIdx = @ + 1, !.issueMap = new.issueMap,
                                              !.fetched = new.fetched,
                                              !.notes = FormatNotes(new.issueMap, order)]
                  /\ pc' = "create.release"
    /\ UNCHANGED <<restVars, calls, ret, output, flags, wHost, requests>>

\* runCreate: the release is asked of the platform
CreateRelease ==
    /\ pc = "create.release"
    /\ LET withNotes == UseNotes(locals.notesErr, locals.notes) IN
       requests' = Append(requests,
                          [op |-> "CreateRelease",
                           tag |-> locals.releaseName,
                           title |-> locals.releaseName,
                           draft |-> flags.draftFlag,
                           prerelease |-> locals.isPrerelease,
                           target |-> locals.commitInfo.Target,
                           notesReader |-> withNotes,
                           notes |-> IF withNotes THEN locals.notes ELSE <<>>])
    /\ \E ok \in BOOLEAN :
          IF ok
          THEN /\ pc' = "done"
               /\ ret' = "nil"
               /\ output' = output \cup {MsgCreated}
               /\ UNCHANGED locals
          ELSE CmdFail(ErrCreate) /\ UNCHANGED output
    /\ UNCHANGED <<restVars, calls, flags, wHost>>

\* releases and names of the runs of create explored
MaxLatest == 2
CreateTags == {<<"1", ".", "0", ".", "0">>, <<"1", ".", "0", ".", "1", "-", "t", "e", "s", "t", "i", "n", "g", ".", "1">>, <<"v", "1", ".", "0", ".", "0">>}
CreateReleaseLists ==
    {l \in ReleaseListsOf(CreateTags, MaxLatest) :
        \A i \in DOMAIN l : l[i].CreatedAt = Stamp(Len(l) - i + 1)}
CreateNames == {<<>>, <<"1", ".", "0", ".", "1">>, <<"1", ".", "0", ".", "1", "-", "t", "e", "s", "t", "i", "n", "g", ".", "2">>, <<"v", "1", ".", "0", ".", "1">>, <<"1", ".", "0">>}
CreateArgs == {<<>>} \cup {<<n>> : n \in CreateNames}

\* gh ns8 module-release create starts
InitCreate ==
    /\ pc = "create.start"
    /\ caller = "create"
    /\ wTagAtHead = FALSE
    /\ wCommits = <<>>
    /\ wCommitPRs = [c \in Commits |-> Unknown]
    /\ wLinks = 0
    /\ Fresh
    /\ fnArg = <<>>
    /\ fnRes = <<>>
    /\ flags \in [repoFlag : RunRepoFlags, releaseRefsFlag : CommitSHAs \cup {""},
                  testingFlag : BOOLEAN, draftFlag : BOOLEAN,
                  withLinkedIssuesFlag : BOOLEAN, args : CreateArgs]
    /\ wHost \in [current : {NoCurrentRepo}, releases : CreateReleaseLists,
                  latestSHA : {MainSHA, "sha-tag"}]
    /\ locals = [repo |-> <<>>, commitInfo |-> NoCommitInfo, releaseName |-> <<>>,
                 isPrerelease |-> FALSE, previousRelease |-> <<>>, prNumbers |-> <<>>,
                 prIdx |-> 0, issueMap |-> <<>>, fetched |-> {}, notes |-> <<>>,
                 notesErr |-> ErrNil, err |-> ErrNil]
    /\ requests = <<>>

NextCreate ==
    \/ CreateResolve
    \/ CreateName
    \/ CreatePrevious
    \/ NotesScan
    \/ NotesPR
    \/ CreateRelease

SpecCreate == InitCreate /\ [][NextCreate]_vars

(* ------------------------------ runComment --------------------------- *)

ErrLatestRelease == "failed to get latest release"
ErrView == "failed to view release"
ErrPrevious == "failed to find previous release"
ErrScan == "failed to scan PRs"
MsgNoLinked == "No linked issues found for this release."
MsgNoOpen == "No open issues to comment on."
MsgPosted == "comment(s) successfully"

\* the states GetIssue answers for the issues of a run of comment
CommentIssueStates == {"open", "closed", "CLOSED"}

\* issue.State == "CLOSED" || issue.State == "closed"
IsClosedUpperOnly(state) == state = "CLOSED"
IsClosed(state) == state = "CLOSED" \/ state = "closed"

\* commentBody: the text of a testing release or of a stable one
CommentBody(isPrerelease) == IF isPrerelease THEN "Testing release" ELSE "Release"

\* how CreateIssueComment can end: "failed" when gh issue comment failed and
\* no comment exists, "created" when the comment exists but its URL could not
\* be looked up afterwards, "posted" when the URL was returned
CommentOutcomes == {"failed", "created", "posted"}

\* CreateIssueComment returns an error
CommentErrOnlyFailed(outcome) == outcome = "failed"
CommentErr(outcome) == outcome # "posted"

\* a comment asked of the platform; checked is what GetIssue answered for
\* the issue just before, "failed" when it did not answer; created tells
\* whether the comment exists on the platform afterwards
Comment(number, role, checked, body, outcome) ==
    [op |-> "CreateIssueComment", number |-> number, role |-> role,
     checked |-> checked, body |-> body, created |-> outcome # "failed"]

\* runComment: the repository, the release and the previous release
CommentResolve ==
    /\ pc = "comment.start"
    /\ \E found \in BOOLEAN, latestOK \in BOOLEAN, viewOK \in BOOLEAN,
          previousViewOK \in BOOLEAN, listOK \in BOOLEAN :
          LET repo == GetOrValidateRepo(flags.repoFlag, wHost.current, found)
              given == IF Len(flags.args) > 0 THEN flags.args[1] ELSE <<>>
              latest == GetLatestRelease(wHost.releases, FALSE, latestOK)
              releaseName == IF given # <<>> THEN given
                             ELSE IF latest.err = ErrNil THEN latest.release.TagName
                             ELSE <<>>
              release == ViewRelease(wHost.releases, releaseName, viewOK)
              previous == FindPreviousRelease(wHost.releases, releaseName,
                                              previousViewOK, listOK)
          IN
          IF repo.err # ErrNil THEN CmdFail(repo.err)
          ELSE IF given = <<>> /\ latest.err # ErrNil THEN CmdFail(ErrLatestRelease)
          ELSE IF ~release.ok THEN CmdFail(ErrView)
          ELSE IF previous.err # ErrNil THEN CmdFail(ErrPrevious)
          ELSE /\ locals' = [locals EXCEPT !.releaseName = releaseName,
                                           !.isPrerelease = release.release.IsPrerelease,
                                           !.previousRelease = previous.tag]
               /\ pc' = "comment.scan"
               /\ UNCHANGED ret
    /\ UNCHANGED <<restVars, calls, output, flags, wHost, requests>>

\* runComment: the pull requests between the two releases
CommentScan ==
    /\ pc = "comment.scan"
    /\ \E scanned \in ScanOutcomes :
          IF scanned.err # ErrNil
          THEN CmdFail(ErrScan)
          ELSE /\ locals' = [locals EXCEPT !.prNumbers = scanned.prs]
               /\ pc' = "comment.pr"
               /\ UNCHANGED ret
    /\ UNCHANGED <<restVars, calls, output, flags, wHost, requests>>

\* runComment: one iteration of the loop that collects the linked issues;
\* after the last one the command returns when there is no issue, and else
\* starts to range over issueMap, in some order
CommentPR ==
    /\ pc = "comment.pr"
    /\ \E ok \in BOOLEAN, links \in SeqsUpTo(IssueNumbers, MaxLinks) :
          LET issueMap == IF ok THEN locals.issueMap \cup Range(links) ELSE locals.issueMap
              last == locals.prIdx + 1 = Len(locals.prNumbers)
          IN
          IF ~last
          THEN /\ locals' = [locals EXCEPT !.prIdx = @ + 1, !.issueMap = issueMap]
               /\ UNCHANGED <<pc, ret, output>>
          ELSE IF issueMap = {}
          THEN /\ locals' = [locals EXCEPT !.prIdx = @ + 1, !.issueMap = issueMap]
               /\ output' = output \cup {MsgNoLinked}
               /\ pc' = "done"
               /\ ret' = "nil"
          ELSE \E order \in Perms(issueMap) :
                  /\ locals' = [locals EXCEPT !.prIdx = @ + 1, !.issueMap = issueMap,
                                              !.order = order]
                  /\ pc' = "comment.issue"
                  /\ UNCHANGED <<ret, output>>
    /\ UNCHANGED <<restVars, calls, flags, wHost, requests>>

\* runComment: one iteration of the loop over issueMap: the issue, then its
\* parent; after the last one the count is printed and the command returns nil
CommentIssue ==
    /\ pc = "comment.issue"
    /\ \E issueOK \in BOOLEAN, outcome \in CommentOutcomes, parentOK \in BOOLEAN,
          parentNum \in 0..MaxIssue, parentIssueOK \in BOOLEAN,
          parentOutcome \in CommentOutcomes :
          LET issueNum == locals.order[locals.idx + 1]
              state == wHost.issueState[issueNum]
              checked == IF issueOK THEN state ELSE "failed"
              parentChecked == IF parentIssueOK /\ parentNum > 0
                               THEN wHost.issueState[parentNum] ELSE "failed"
              body == CommentBody(locals.isPrerelease)
              posted == ~CommentErr(outcome)
              parentPosted == ~CommentErr(parentOutcome)
              asked == issueOK /\ ~IsClosed(state)
              parentAsked == /\ asked /\ posted
                             /\ parentOK /\ parentNum > 0
                             /\ parentIssueOK /\ ~IsClosed(wHost.issueState[parentNum])
              count == locals.commentedCount
                       + (IF asked /\ posted THEN 1 ELSE 0)
                       + (IF parentAsked /\ parentPosted THEN 1 ELSE 0)
              last == locals.idx + 1 = Len(locals.order)
          IN
          /\ requests' = requests
                         \o (IF asked THEN <<Comment(issueNum, "linked", checked, body, outcome)>> ELSE <<>>)
                         \o (IF parentAsked
                             THEN <<Comment(parentNum, "parent", parentChecked, body,
                                         parentOutcome)>> ELSE <<>>)
          /\ locals' = [locals EXCEPT
                           !.idx = @ + 1,
                           !.commentedCount = count,
                           !.seen = Put(@, issueNum, checked)]
          /\ IF last
             THEN /\ pc' = "done"
                  /\ ret' = "nil"
                  /\ output' = output \cup {IF count = 0 THEN MsgNoOpen ELSE MsgPosted}
             ELSE UNCHANGED <<pc, ret, output>>
    /\ UNCHANGED <<restVars, calls, flags, wHost>>

\* gh ns8 module-release comment starts
InitComment ==
    /\ pc = "comment.start"
    /\ caller = "comment"
    /\ wTagAtHead = FALSE
    /\ wCommits = <<>>
    /\ wCommitPRs = [c \in Commits |-> Unknown]
    /\ wLinks = 0
    /\ Fresh
    /\ fnArg = <<>>
    /\ fnRes = <<>>
    /\ flags \in [repoFlag : RunRepoFlags, args : {<<>>} \cup {<<t>> : t \in CreateTags}]
    /\ wHost \in [current : {NoCurrentRepo}, releases : CreateReleaseLists,
                  issueState : [IssueNumbers -> CommentIssueStates]]
    /\ locals = [releaseName |-> <<>>, isPrerelease |-> FALSE, previousRelease |-> <<>>,
                 prNumbers |-> <<>>, prIdx |-> 0, issueMap |-> {}, order |-> <<>>,
                 idx |-> 0, commentedCount |-> 0, seen |-> <<>>,
                 err |-> ErrNil]
    /\ requests = <<>>

NextComment ==
    \/ CommentResolve
    \/ CommentScan
    \/ CommentPR
    \/ CommentIssue

SpecComment == InitComment /\ [][NextComment]_vars

(* ------------------------------ GetLinkedIssues ---------------------- *)

\* how many fragments a pull request body is put together from, at most
MaxParts == 3

\* strings.Split(s, "/")
RECURSIVE SplitSlash(_, _)
SplitSlash(s, part) ==
    IF Len(s) = 0 THEN <<part>>
    ELSE IF Head(s) = "/" THEN <<part>> \o SplitSlash(Tail(s), <<>>)
    ELSE SplitSlash(Tail(s), Append(part, Head(s)))

\* the three patterns of fmt.Sprintf, up to the group (\d+): owner and repo
\* go into the pattern as they are, so a "." of theirs stands for any
\* character but a newline, while "\\." is the escaped dot of github\.com
LinkPatterns(owner, repo) ==
    << owner \o <<"/", "i", "s", "s", "u", "e", "s", "/">>,
       owner \o <<"/">> \o repo \o <<"#">>,
       <<"h", "t", "t", "p", "s", ":", "/", "/", "g", "i", "t", "h", "u", "b">> \o <<"\\.">> \o <<"c", "o", "m", "/">> \o owner \o <<"/">> \o repo \o <<"/", "i", "s", "s", "u", "e", "s", "/">> >>

\* one element of a pattern against one character
PatternChar(e, c) ==
    IF e = "." THEN c # "\n"
    ELSE IF e = "\\." THEN c = "."
    ELSE e = c

\* the pattern, without its group, matches prBody at position i
PrefixAt(pattern, prBody, i) ==
    /\ i + Len(pattern) - 1 <= Len(prBody)
    /\ \A k \in DOMAIN pattern : PatternChar(pattern[k], prBody[i + k - 1])

\* (\d+) at position i: the length of the longest run of digits
RECURSIVE DigitRun(_, _)
DigitRun(prBody, i) ==
    IF i <= Len(prBody) /\ IsDigit(prBody[i]) THEN 1 + DigitRun(prBody, i + 1) ELSE 0

\* re.FindAllStringSubmatch(prBody, -1): the groups of the successive
\* matches, leftmost first, none overlapping the one before
RECURSIVE FindAllStringSubmatch(_, _, _)
FindAllStringSubmatch(pattern, prBody, i) ==
    IF i > Len(prBody) THEN <<>>
    ELSE LET from == i + Len(pattern)
             run == DigitRun(prBody, from) IN
         IF PrefixAt(pattern, prBody, i) /\ run > 0
         THEN <<SubSeq(prBody, from, from + run - 1)>>
              \o FindAllStringSubmatch(pattern, prBody, from + run)
         ELSE FindAllStringSubmatch(pattern, prBody, i + 1)

\* the test that keeps a scanned number
KeptAlways(num) == TRUE
Kept(num) == num > 0

\* the inner loop: fmt.Sscanf(match[1], "%d", &num) on every match. The
\* groups explored hold a few digits, far from the range of int
RECURSIVE ScanMatches(_)
ScanMatches(matches) ==
    IF Len(matches) = 0 THEN <<>>
    ELSE LET num == Atoi(Head(matches)) IN
         (IF Kept(num) THEN <<num>> ELSE <<>>) \o ScanMatches(Tail(matches))

\* the outer loop over the three patterns
AllPatternsFirstOnly(patterns, prBody) ==
    ScanMatches(FindAllStringSubmatch(patterns[2], prBody, 1))
AllPatterns(patterns, prBody) ==
    ScanMatches(FindAllStringSubmatch(patterns[1], prBody, 1))
    \o ScanMatches(FindAllStringSubmatch(patterns[2], prBody, 1))
    \o ScanMatches(FindAllStringSubmatch(patterns[3], prBody, 1))

GetLinkedIssues(prBody, issuesRepo) ==
    LET parts == SplitSlash(issuesRepo, <<>>) IN
    IF Len(parts) # 2 THEN <<>>
    ELSE AllPatterns(LinkPatterns(parts[1], parts[2]), prBody)

\* values of --issues-repo: the default, names without or with two
\* separators, and a repository with a dot in its name
IssuesRepos ==
    {<<"N", "e", "t", "h", "S", "e", "r", "v", "e", "r", "/", "d", "e", "v">>, <<"N", "e", "t", "h", "S", "e", "r", "v", "e", "r">>, <<"N", "e", "t", "h", "S", "e", "r", "v", "e", "r", "/", "d", "e", "v", "/", "x">>, <<"N", "e", "t", "h", "S", "e", "r", "v", "e", "r", "/", "n", ".", "8">>}

\* what pull request bodies are put together from
BodyFragments ==
    {<<"F", "i", "x", "e", "s", " ", "N", "e", "t", "h", "S", "e", "r", "v", "e", "r", "/", "d", "e", "v", "#", "4", "2">>,
     <<" ", "a", "n", "d", " ", "s", "e", "e", " ", "h", "t", "t", "p", "s", ":", "/", "/", "g", "i", "t", "h", "u", "b", ".", "c", "o", "m", "/", "N", "e", "t", "h", "S", "e", "r", "v", "e", "r", "/", "d", "e", "v", "/", "i", "s", "s", "u", "e", "s", "/", "4", "3">>,
     <<" ", "N", "e", "t", "h", "S", "e", "r", "v", "e", "r", "/", "i", "s", "s", "u", "e", "s", "/", "7">>,
     <<" ", "N", "e", "t", "h", "S", "e", "r", "v", "e", "r", "/", "d", "e", "v", "#", "0">>,
     <<" ", "O", "t", "h", "e", "r", "/", "d", "e", "v", "#", "9">>,
     <<" ", "N", "e", "t", "h", "S", "e", "r", "v", "e", "r", "/", "d", "e", "v", "#">>,
     <<" ", "N", "e", "t", "h", "S", "e", "r", "v", "e", "r", "/", "n", "x", "8", "#", "5">>,
     <<" ", "N", "e", "t", "h", "S", "e", "r", "v", "e", "r", "/", "n", ".", "8", "#", "6">>,
     <<"1">>}

RECURSIVE BodiesOf(_)
BodiesOf(n) ==
    IF n = 0 THEN {<<>>}
    ELSE LET shorter == BodiesOf(n - 1) IN
         shorter \cup {b \o f : b \in shorter, f \in BodyFragments}

Bodies == BodiesOf(MaxParts)

\* runCheck, runComment or the notes of runCreate hold the body of a pull request
InitLinked ==
    /\ pc = "fn"
    /\ caller = "GetLinkedIssues"
    /\ wTagAtHead = FALSE
    /\ wCommits = <<>>
    /\ wCommitPRs = [c \in Commits |-> Unknown]
    /\ wLinks = 0
    /\ Fresh
    /\ Idle
    /\ fnArg \in [prBody : Bodies, issuesRepo : IssuesRepos]
    /\ fnRes = NoResult

\* GetLinkedIssues(pr.Body, issuesRepoFlag)
CallGetLinkedIssues ==
    /\ pc = "fn"
    /\ fnRes' = [fn |-> "GetLinkedIssues",
                 out |-> GetLinkedIssues(fnArg.prBody, fnArg.issuesRepo)]
    /\ pc' = "done"
    /\ UNCHANGED <<caller, calls, worldVars, scanVars, checkVars, fnArg, cmdVars>>

NextLinked == CallGetLinkedIssues

SpecLinked == InitLinked /\ [][NextLinked]_vars

(* ------------- the state string of an issue, in check and comment ---- *)

\* runComment has fetched the issue, or its parent, and tests its state
\* before it comments
CommentGate ==
    /\ pc = "fn"
    /\ fnRes' = [fn |-> "IsClosed", out |-> IsClosed(fnArg.state)]
    /\ pc' = "done"
    /\ UNCHANGED <<caller, calls, worldVars, scanVars, checkVars, fnArg, cmdVars>>

\* one fetched issue, seen by ProcessIssue or by runComment
NextIssueState ==
    \/ BuildIssueInfo
    \/ CommentGate

SpecIssueState == InitLabels /\ [][NextIssueState]_vars

(* ------------------------------ properties --------------------------- *)

\* runCheck has printed the report
Reported == pc = "done" /\ MsgSummary \in output

\* how many times x occurs in the list
Count(list, x) == Cardinality({i \in DOMAIN list : list[i] = x})

\* C1: at the end of a check run "ready to release" is printed if and only
\* if no pull request is unlinked, every issue of the map without children
\* is verified, and all the children of every issue with children are
\* verified; the tier of an issue with children plays no part
C1_ReadyVerdict ==
    Reported =>
        /\ ret = "nil"
        /\ MsgReady \in output <=>
            (/\ Len(UnlinkedPRs) = 0
             /\ \A n \in DOMAIN Issues :
                 IF Len(Issues[n].Children) = 0
                 THEN Issues[n].Progress = EmojiVerified
                 ELSE \A i \in DOMAIN Issues[n].Children :
                         Issues[Issues[n].Children[i]].Progress = EmojiVerified)

\* a run reported ready although a parent issue is not verified itself
C1_Witness ==
    /\ Reported
    /\ MsgReady \in output
    /\ \E n \in DOMAIN Issues :
        Len(Issues[n].Children) > 0 /\ Issues[n].Progress # EmojiVerified

\* C2: in every check run that reaches the report, each commit of the range
\* is either marked in-PR (its lookup in the marking loop succeeded with at
\* least one pull request) or listed exactly once among the orphans, never
\* both and never neither; a commit whose lookup failed is an orphan
C2_CommitsPartitioned ==
    Reported =>
        /\ comparison = wCommits
        /\ \A i \in DOMAIN OrphanCommits :
              \E c \in Range(wCommits) : OrphanCommits[i] = CommitURL(c)
        /\ \A c \in Range(wCommits) :
              /\ c \in commitsInPRs <=> markSeen[c] = "prs"
              /\ c \in commitsInPRs => Count(OrphanCommits, CommitURL(c)) = 0
              /\ c \notin commitsInPRs => Count(OrphanCommits, CommitURL(c)) = 1
              /\ markSeen[c] = "failed" => Count(OrphanCommits, CommitURL(c)) = 1

\* a reported run with a commit whose lookup failed and a commit in a pull request
C2_Witness ==
    /\ Reported
    /\ \E c, d \in Range(wCommits) : markSeen[c] = "failed" /\ markSeen[d] = "prs"

\* the classes pull request p is in: one for a body with issue references,
\* one for each listing in TranslationPRs and in UnlinkedPRs
C3_Classes(p) ==
    (IF prSeen[p] = "links" THEN 1 ELSE 0)
        + Count(TranslationPRs, PRURL(p)) + Count(UnlinkedPRs, PRURL(p))

\* C3 as claimed: in every check run that reaches the report, each pull
\* request number the scan returned is in exactly one of three classes: it
\* has linked issues, it is listed in TranslationPRs, or it is listed in
\* UnlinkedPRs; this includes the pull requests whose details could not be
\* fetched
C3_EveryPRClassified ==
    Reported => \A i \in DOMAIN prNumbers : C3_Classes(prNumbers[i]) = 1

\* C3 as amended: in every check run that reaches the report, each pull
\* request number the scan returned whose details were fetched is in exactly
\* one of the three classes: linked issues (handed to ProcessIssue), no
\* linked issue and a label translation (listed once in TranslationPRs), or
\* neither (listed once in UnlinkedPRs); a pull request whose details could
\* not be fetched is skipped and is in none of them
C3_FetchedPRsClassified ==
    Reported =>
        /\ \A i \in DOMAIN prNumbers :
            LET p == prNumbers[i]
                translation == Count(TranslationPRs, PRURL(p))
                unlinked == Count(UnlinkedPRs, PRURL(p))
            IN
            /\ prSeen[p] # "none"
            /\ prSeen[p] = "failed" => C3_Classes(p) = 0
            /\ prSeen[p] # "failed" => C3_Classes(p) = 1
            /\ prSeen[p] = "label" => translation = 1
            /\ prSeen[p] = "bare" => unlinked = 1
        /\ Len(TranslationPRs) + Len(UnlinkedPRs) =
              Cardinality({i \in DOMAIN prNumbers : prSeen[prNumbers[i]] \in {"label", "bare"}})
        /\ (\E i \in DOMAIN prNumbers : prSeen[prNumbers[i]] = "links")
              => DOMAIN Issues # {} \/ MsgWarning \in output

\* a reported run in which GetPullRequest failed for one scanned pull request
\* and another one carries the translation label
C3_Witness ==
    /\ Reported
    /\ \E i, j \in DOMAIN prNumbers :
          prSeen[prNumbers[i]] = "failed" /\ prSeen[prNumbers[j]] = "label"

\* C4: the progress tier ProcessIssue gives an issue is verified if its
\* labels contain "verified" (with or without "testing"), otherwise testing
\* if they contain "testing", otherwise in progress; the labels kept for
\* display are the labels other than "verified" and "testing", in their
\* original order, with one space between neighbours
C4_TierPrecedence ==
    fnRes.fn = "NewIssueInfo" =>
        LET labels == fnArg.labels
            info == fnRes.out
            kept == SelectSeq(labels, LAMBDA l : l # "verified" /\ l # "testing")
        IN
        /\ info.Progress =
              IF "verified" \in Range(labels) THEN EmojiVerified
              ELSE IF "testing" \in Range(labels) THEN EmojiTesting
              ELSE EmojiInProgress
        /\ Len(info.Labels) = IF Len(kept) = 0 THEN 0 ELSE 2 * Len(kept) - 1
        /\ \A i \in DOMAIN kept : info.Labels[2 * i - 1] = kept[i]
        /\ \A i \in 1..(Len(kept) - 1) : info.Labels[2 * i] = " "

\* an issue labelled testing, then another label, then verified
C4_Witness ==
    /\ fnRes.fn = "NewIssueInfo"
    /\ fnArg.labels = <<"testing", "bug", "verified">>
    /\ fnRes.out.Progress = EmojiVerified
    /\ fnRes.out.Labels = <<"bug">>

\* the next step is ProcessIssue on a number that is in the map
C5_Again == pc = "pi" /\ Top.stage = "enter" /\ Top.n \in DOMAIN Issues

\* C5: the issue map holds one entry per issue number, and ProcessIssue on a
\* number already in the map adds one to the reference counter of that entry,
\* fetches neither the issue nor its parent, and changes no other entry
C5_CountedOnce ==
    [][/\ \A n \in DOMAIN Issues' : Issues'[n].Number = n
       /\ C5_Again =>
            /\ Issues' = [Issues EXCEPT ![Top.n].RefCount = Issues[Top.n].RefCount + 1]
            /\ lastFetch' = "none"]_vars

\* an issue was processed twice: one entry, counted twice
C5_Witness ==
    \E n \in DOMAIN Issues : Issues[n].RefCount = 2 /\ Issues[n].Number = n

\* C6: when the latest stable tag points at the tip of main, check ends with
\* the "nothing to release" message and no error, which a failed run never
\* shows, and it compares no range, scans no pull request, processes no issue
\* and prints no summary
C6_NothingToRelease ==
    /\ MsgNothing \in output => wTagAtHead /\ pc = "done" /\ ret = "nil"
    /\ wTagAtHead =>
        /\ calls \cap {"CompareCommits", "GetPullRequestsForCommit", "GetPullRequest"} = {}
        /\ DOMAIN Issues = {}
        /\ stack = <<>>
        /\ MsgSummary \notin output
        /\ pc = "done" => \/ ret = "error" /\ MsgNothing \notin output
                          \/ ret = "nil" /\ MsgNothing \in output
        /\ "GetCommitSHA" \in calls /\ ret # "error" =>
              pc = "done" /\ ret = "nil" /\ MsgNothing \in output

\* check ended on "nothing to release"
C6_Witness == pc = "done" /\ ret = "nil" /\ MsgNothing \in output

\* C7: when the tag is not the tip of main but the range latestStableTag..main
\* holds no commit, check returns an error
C7_EmptyRangeFails ==
    (pc = "done" /\ caller = "check" /\ ~wTagAtHead /\ Len(wCommits) = 0
        /\ "CompareCommits" \in calls)
    => ret = "error"

\* check found the range empty
C7_EmptyRange ==
    /\ pc = "done"
    /\ ~wTagAtHead
    /\ Len(wCommits) = 0
    /\ MsgNoCommits \in output

\* the pull requests of the commits whose lookup succeeded in ScanForPRs
C8_Union ==
    UNION {wCommitPRs[c][1] : c \in {d \in Range(wCommits) : scanSeen[d] = "ok"}}

\* C8: once the comparison succeeded, ScanForPRs returns the empty-range
\* error if and only if the range holds no commit; otherwise it visits every
\* commit, a failed lookup adds nothing and does not end the scan, it returns
\* the no-PRs error if and only if the union of the pull requests of the
\* commits looked up with success is empty, and otherwise that union, each
\* number once
C8_ScanResult ==
    (caller = "scan" /\ pc = "done" /\ scanRes.err # ErrCompare) =>
        /\ scanRes.err = ErrEmptyRange <=> Len(wCommits) = 0
        /\ scanRes.err # ErrNil => scanRes.prs = <<>>
        /\ Len(wCommits) > 0 =>
            /\ \A c \in Range(wCommits) : scanSeen[c] # "none"
            /\ scanRes.err = ErrNoPRs <=> C8_Union = {}
            /\ C8_Union # {} =>
                /\ scanRes.err = ErrNil
                /\ Range(scanRes.prs) = C8_Union
                /\ Len(scanRes.prs) = Cardinality(C8_Union)

\* a scan of two commits that are in different pull requests
C8_Witness ==
    /\ caller = "scan"
    /\ pc = "done"
    /\ scanRes.err = ErrNil
    /\ Len(wCommits) = 2
    /\ scanSeen[1] = "ok"
    /\ scanSeen[2] = "ok"
    /\ wCommitPRs[1][1] # {}
    /\ wCommitPRs[2][1] # {}
    /\ wCommitPRs[1][1] # wCommitPRs[2][1]
    /\ Len(scanRes.prs) = 2

\* the places where tag reads <prefix>-testing.<N>: the length of <N>
C9_Forms(tag) ==
    {k \in 1..Len(tag) :
        /\ \A i \in (Len(tag) - k + 1)..Len(tag) : IsDigit(tag[i])
        /\ Len(tag) - k >= Len(TestingInfix)
        /\ \A j \in DOMAIN TestingInfix :
              tag[Len(tag) - k - Len(TestingInfix) + j] = TestingInfix[j]}

\* C9: for a tag <prefix>-testing.<N>, N one of the numbers of the tags
\* explored, incrementTestingNumber returns <prefix>-testing. followed by the decimal
\* writing of N+1, the prefix unchanged; for any other tag it returns the
\* format error and no name
C9_TestingIncrement ==
    fnRes.fn = "incrementTestingNumber" =>
        LET tag == fnArg
            res == fnRes.out
        IN
        IF C9_Forms(tag) = {}
        THEN res.err = ErrTestingFormat /\ res.name = <<>>
        ELSE \A k \in C9_Forms(tag) :
                LET cut == Len(tag) - k
                    number == SubSeq(res.name, cut + 1, Len(res.name))
                IN
                /\ res.err = ErrNil
                /\ SubSeq(res.name, 1, cut) = SubSeq(tag, 1, cut)
                /\ AllDigits(number)
                /\ Len(number) > 1 => number[1] # "0"
                /\ Atoi(number) = Atoi(SubSeq(tag, cut + 1, Len(tag))) + 1

\* 1.2.9-testing.9 became 1.2.9-testing.10
C9_Witness ==
    /\ fnRes.fn = "incrementTestingNumber"
    /\ fnArg = <<"1", ".", "2", ".", "9">> \o TestingInfix \o <<"9">>
    /\ fnRes.out.name = <<"1", ".", "2", ".", "9">> \o TestingInfix \o <<"1", "0">>

\* the numeric triple tag starts with, as <<major, minor, patch>>, each a run
\* of digits as long as it can be; <<>> when tag starts with no triple
C10_Triple(tag) ==
    LET dots == {i \in DOMAIN tag : tag[i] = "."}
        ends == {e \in DOMAIN tag : e = Len(tag) \/ ~IsDigit(tag[e + 1])}
        fits == {t \in dots \X dots \X ends :
                    /\ 1 < t[1] /\ t[1] + 1 < t[2] /\ t[2] < t[3]
                    /\ \A i \in 1..t[3] : i \in {t[1], t[2]} \/ IsDigit(tag[i])}
    IN IF fits = {} THEN <<>>
       ELSE LET t == CHOOSE u \in fits : TRUE IN
            <<SubSeq(tag, 1, t[1] - 1), SubSeq(tag, t[1] + 1, t[2] - 1),
              SubSeq(tag, t[2] + 1, t[3])>>

\* C10: for a tag that starts with a numeric triple major.minor.patch, patch
\* one of the numbers of the tags explored, incrementPatchAndAddTesting returns
\* major.minor. followed by the decimal writing of patch+1 and by -testing.1,
\* major and minor as written in the tag and what follows the triple dropped;
\* for any other tag it returns the format error and no name
C10_PatchIncrement ==
    fnRes.fn = "incrementPatchAndAddTesting" =>
        LET tag == fnArg
            res == fnRes.out
            triple == C10_Triple(tag)
        IN
        IF triple = <<>>
        THEN res.err = ErrSemverFormat /\ res.name = <<>>
        ELSE LET head == triple[1] \o <<".">> \o triple[2] \o <<".">>
                 number == SubSeq(res.name, Len(head) + 1,
                                  Len(res.name) - Len(TestingInfix) - 1)
             IN
             /\ res.err = ErrNil
             /\ SubSeq(res.name, 1, Len(head)) = head
             /\ HasSuffix(res.name, TestingInfix \o <<"1">>)
             /\ AllDigits(number)
             /\ Len(number) > 1 => number[1] # "0"
             /\ Atoi(number) = Atoi(triple[3]) + 1

\* 01.2.19-rc.1a became 01.2.20-testing.1
C10_Witness ==
    /\ fnRes.fn = "incrementPatchAndAddTesting"
    /\ fnArg = <<"0", "1", ".", "2", ".", "1", "9", "-", "r", "c", ".", "1", "a">>
    /\ fnRes.out.name = <<"0", "1", ".", "2", ".", "2", "0">> \o TestingInfix \o <<"1">>

\* the parts of s between the occurrences of sep
RECURSIVE C12_Split(_, _)
C12_Split(s, sep) ==
    IF \A i \in DOMAIN s : s[i] # sep THEN <<s>>
    ELSE LET k == CHOOSE i \in DOMAIN s : s[i] = sep /\ \A j \in 1..(i - 1) : s[j] # sep
         IN <<SubSeq(s, 1, k - 1)>> \o C12_Split(SubSeq(s, k + 1, Len(s)), sep)

\* the position of the first c in s, Len(s) + 1 when there is none
C12_First(s, c) ==
    CHOOSE k \in 1..(Len(s) + 1) :
        /\ \A j \in 1..(k - 1) : s[j] # c
        /\ k <= Len(s) => s[k] = c

C12_Alnum(s) == Len(s) > 0 /\ \A i \in DOMAIN s : IsDigit(s[i]) \/ IsLetter(s[i]) \/ s[i] = "-"
C12_NoLeadingZero(s) == Len(s) > 1 => s[1] # "0"

\* the grammar of semantic versioning 2.0.0: what follows the first + is the
\* build metadata, what follows the first - before it is the pre-release
C12_Grammar(s) ==
    LET plus == C12_First(s, "+")
        main == SubSeq(s, 1, plus - 1)
        build == SubSeq(s, plus + 1, Len(s))
        dash == C12_First(main, "-")
        core == C12_Split(SubSeq(main, 1, dash - 1), ".")
        pre == SubSeq(main, dash + 1, Len(main))
    IN
    /\ Len(core) = 3
    /\ \A i \in 1..3 : AllDigits(core[i]) /\ C12_NoLeadingZero(core[i])
    /\ dash <= Len(main) =>
          \A id \in Range(C12_Split(pre, ".")) :
              C12_Alnum(id) /\ (AllDigits(id) => C12_NoLeadingZero(id))
    /\ plus <= Len(s) =>
          \A id \in Range(C12_Split(build, ".")) : C12_Alnum(id)

C12_Accepted == {<<"1", ".", "2", ".", "3">>, <<"1", ".", "2", ".", "3", "-", "t", "e", "s", "t", "i", "n", "g", ".", "1">>, <<"1", ".", "2", ".", "3", "+", "b", "u", "i", "l", "d", ".", "5">>, <<"1", ".", "2", ".", "3", "-", "a", "l", "p", "h", "a", ".", "1", "+", "b", "u", "i", "l", "d", ".", "5">>}
C12_Rejected == {<<"1", ".", "2">>, <<"v", "1", ".", "2", ".", "3">>, <<"1", ".", "2", ".", "3", "-">>, <<"0", "1", ".", "2", ".", "3">>}

\* C12: IsSemver(s) is true exactly when s follows the grammar of semantic
\* versioning (three numeric identifiers without leading zeros, optional
\* pre-release identifiers after -, optional build identifiers after +); it is
\* true of 1.2.3, 1.2.3-testing.1, 1.2.3+build.5 and 1.2.3-alpha.1+build.5 and
\* false of 1.2, v1.2.3, 1.2.3- and 01.2.3
C12_IsSemver ==
    fnRes.fn = "IsSemver" =>
        /\ fnRes.out = C12_Grammar(fnArg)
        /\ fnArg \in C12_Accepted => fnRes.out
        /\ fnArg \in C12_Rejected => ~fnRes.out

\* 1.2.3-alpha.1+build.5 was accepted
C12_Witness ==
    /\ fnRes.fn = "IsSemver"
    /\ fnArg = <<"1", ".", "2", ".", "3", "-", "a", "l", "p", "h", "a", ".", "1", "+", "b", "u", "i", "l", "d", ".", "5">>
    /\ fnRes.out

\* id names a repository owner/ns8-*: its first / comes after an owner and
\* before a name that starts with ns8-
C16_Convention(id) ==
    LET slash == C12_First(id, "/") IN
    /\ slash > 1
    /\ slash + 4 <= Len(id)
    /\ id[slash + 1] = "n" /\ id[slash + 2] = "s" /\ id[slash + 3] = "8" /\ id[slash + 4] = "-"

\* C16: the repository resolved is the explicit one when it is not empty, else
\* the ambient one, and resolution fails with the could-not-determine error
\* when there is neither; a resolved name that is not owner/ns8-* fails with the
\* naming error and the platform is not asked for the repository; a failed
\* lookup gives the invalid-repo error; the name is returned only when the
\* three steps succeeded
C16_RepoResolution ==
    fnRes.fn = "GetOrValidateRepo" =>
        LET explicit == flags.repoFlag
            res == fnRes.out
            resolved == IF explicit # <<>> THEN explicit ELSE wHost.current.repo
            lookedUp == \E i \in DOMAIN res.made : res.made[i] = "GetRepository"
        IN
        IF explicit = <<>> /\ ~wHost.current.ok
        THEN res.err = ErrNoRepo /\ res.repo = <<>> /\ ~lookedUp
        ELSE IF ~C16_Convention(resolved)
        THEN res.err = ErrNS8Name /\ res.repo = <<>> /\ ~lookedUp
        ELSE IF ~wHost.found
        THEN res.err = ErrInvalidRepo /\ res.repo = <<>> /\ lookedUp
        ELSE res.err = ErrNil /\ res.repo = resolved /\ lookedUp

\* without --repo, in the working directory of a/b/ns8-x: rejected for its
\* name, and the platform was not asked for it
C16_Witness ==
    /\ fnRes.fn = "GetOrValidateRepo"
    /\ flags.repoFlag = <<>>
    /\ wHost.current = [ok |-> TRUE, repo |-> <<"a", "/", "b", "/", "n", "s", "8", "-", "x">>]
    /\ wHost.found
    /\ fnRes.out.err = ErrNS8Name
    /\ fnRes.out.made = <<"GetCurrentRepository">>

\* the release of list rs named tag, and whether there is one
C13_Listed(rs, tag) == \E i \in DOMAIN rs : rs[i].TagName = tag
C13_Release(rs, tag) == rs[CHOOSE i \in DOMAIN rs : rs[i].TagName = tag]

\* creation times as numbers
C13_Time(r) == Atoi(r.CreatedAt)

\* the releases of rs created before the release named tag
C13_Older(rs, tag) ==
    {r \in Range(rs) : C13_Time(r) < C13_Time(C13_Release(rs, tag))}

\* the one of the releases of set S created last
C13_Latest(S) == CHOOSE r \in S : \A q \in S : C13_Time(q) <= C13_Time(r)

\* C13: for a stable current release FindPreviousRelease returns the release
\* created last among the stable releases older than current, and fails when
\* there is none; for a pre-release it returns the release created last among
\* all the releases older than current; it fails when current is not in the
\* list or is the oldest release
C13_PreviousRelease ==
    fnRes.fn = "FindPreviousRelease" =>
        LET rs == wHost.releases
            current == fnArg
            res == fnRes.out
            answered == fnRes.gh.viewOK /\ fnRes.gh.listOK
        IN
        IF ~C13_Listed(rs, current) \/ C13_Older(rs, current) = {}
        THEN res.err # ErrNil /\ res.tag = <<>>
        ELSE LET older == C13_Older(rs, current)
                 stable == {r \in older : ~r.IsPrerelease}
             IN
             IF C13_Release(rs, current).IsPrerelease
             THEN /\ res.err = ErrNil => res.tag = C13_Latest(older).TagName
                  /\ answered => res.err = ErrNil
             ELSE IF stable = {}
             THEN res.err # ErrNil /\ res.tag = <<>>
             ELSE /\ res.err = ErrNil => res.tag = C13_Latest(stable).TagName
                  /\ answered => res.err = ErrNil

\* from the stable 1.0.1, over two pre-releases, back to the stable 1.0.0
C13_Witness ==
    /\ fnRes.fn = "FindPreviousRelease"
    /\ fnArg = <<"1", ".", "0", ".", "1">>
    /\ Len(wHost.releases) = 4
    /\ wHost.releases[1].TagName = <<"1", ".", "0", ".", "1">> /\ ~wHost.releases[1].IsPrerelease
    /\ wHost.releases[2].IsPrerelease /\ wHost.releases[3].IsPrerelease
    /\ wHost.releases[4].TagName = <<"1", ".", "0", ".", "0">> /\ ~wHost.releases[4].IsPrerelease
    /\ fnRes.out = [tag |-> <<"1", ".", "0", ".", "0">>, err |-> ErrNil]

\* the releases of the end-to-end scenario, the latest first
C14_Scenario ==
    <<[TagName |-> <<"1", ".", "0", ".", "1">>, IsPrerelease |-> FALSE, CreatedAt |-> Stamp(4)],
      [TagName |-> <<"1", ".", "0", ".", "1", "-", "t", "e", "s", "t", "i", "n", "g", ".", "2">>, IsPrerelease |-> TRUE, CreatedAt |-> Stamp(3)],
      [TagName |-> <<"1", ".", "0", ".", "1", "-", "t", "e", "s", "t", "i", "n", "g", ".", "1">>, IsPrerelease |-> TRUE, CreatedAt |-> Stamp(2)],
      [TagName |-> <<"1", ".", "0", ".", "0">>, IsPrerelease |-> FALSE, CreatedAt |-> Stamp(1)]>>

\* C14: GetPreReleasesBetween(start, end) returns, each once, the tags of the
\* pre-releases created after start and not after end, and of no other
\* release; in the scenario of the four releases it returns 1.0.1-testing.1 and
\* 1.0.1-testing.2 between 1.0.0 and 1.0.1; it fails when start or end is not
\* in the release list
C14_PreReleasesBetween ==
    fnRes.fn = "GetPreReleasesBetween" =>
        LET rs == wHost.releases
            start == fnArg.startTag
            end == fnArg.endTag
            res == fnRes.out
        IN
        IF ~C13_Listed(rs, start) \/ ~C13_Listed(rs, end)
        THEN res.err # ErrNil /\ res.tags = <<>>
        ELSE LET between ==
                    {r \in Range(rs) :
                        /\ r.IsPrerelease
                        /\ C13_Time(C13_Release(rs, start)) < C13_Time(r)
                        /\ C13_Time(r) <= C13_Time(C13_Release(rs, end))}
             IN
             /\ fnRes.gh.listOK => res.err = ErrNil
             /\ res.err = ErrNil =>
                   /\ Range(res.tags) = {r.TagName : r \in between}
                   /\ Len(res.tags) = Cardinality(between)
                   /\ (rs = C14_Scenario /\ start = <<"1", ".", "0", ".", "0">> /\ end = <<"1", ".", "0", ".", "1">>) =>
                         Range(res.tags) = {<<"1", ".", "0", ".", "1", "-", "t", "e", "s", "t", "i", "n", "g", ".", "1">>, <<"1", ".", "0", ".", "1", "-", "t", "e", "s", "t", "i", "n", "g", ".", "2">>}

\* the scenario of the four releases was answered with the two pre-releases
C14_Witness ==
    /\ fnRes.fn = "GetPreReleasesBetween"
    /\ wHost.releases = C14_Scenario
    /\ fnArg = [startTag |-> <<"1", ".", "0", ".", "0">>, endTag |-> <<"1", ".", "0", ".", "1">>]
    /\ fnRes.out.err = ErrNil
    /\ Len(fnRes.out.tags) = 2

\* C15: every release clean asks the platform to delete is flagged
\* pre-release and was created after the previous release chosen and before
\* the release named (or the latest stable release when none is named), both
\* of them stable; the release named is not among those deleted, nor is any
\* stable release
C15_OnlyPreReleasesBetween ==
    \A i \in DOMAIN requests :
        requests[i].op = "DeleteRelease" =>
            LET rs == wHost.releases
                deleted == C13_Release(rs, requests[i].tag)
                named == C13_Release(rs, locals.stableRelease)
                previous == C13_Release(rs, locals.previousRelease)
            IN
            /\ deleted.IsPrerelease
            /\ C13_Time(previous) < C13_Time(deleted)
            /\ C13_Time(deleted) < C13_Time(named)
            /\ deleted.TagName # named.TagName
            /\ ~named.IsPrerelease /\ ~previous.IsPrerelease

\* clean was given the name of a pre-release and has asked to delete it
C15_NamedDeleted ==
    /\ caller = "clean"
    /\ flags.releaseNameFlag # <<>>
    /\ \E i \in DOMAIN requests :
          requests[i] = [op |-> "DeleteRelease", tag |-> flags.releaseNameFlag]

\* the requests to create a release made so far
C11_Created == {i \in DOMAIN requests : requests[i].op = "CreateRelease"}

\* create --testing was run with no version, it has gone through the
\* generation of the name, and the latest release points at the head of main
C11_AtHead ==
    /\ caller = "create"
    /\ flags.testingFlag
    /\ \A i \in DOMAIN flags.args : flags.args[i] = <<>>
    /\ "NextTestingRelease" \in calls
    /\ wHost.releases # <<>>
    /\ wHost.latestSHA = MainSHA

\* C11: when create --testing has no explicit version and the latest release
\* of any kind points at the head of main, the generation of the name ends the
\* run with an error, which is the nothing-to-release error unless a platform
\* call failed or the latest tag is no semver; no increment of a version was
\* computed and no release is ever asked of the platform
C11_NothingToRelease ==
    C11_AtHead =>
        /\ pc = "done" /\ ret = "error"
        /\ locals.err \in {ErrLatestList, ErrLatestSemver, ErrReleaseSHA, ErrMainSHA, ErrAtHead}
        /\ C12_Grammar(wHost.releases[1].TagName) =>
              locals.err \in {ErrLatestList, ErrReleaseSHA, ErrMainSHA, ErrAtHead}
        /\ "incrementTestingNumber" \notin calls
        /\ "incrementPatchAndAddTesting" \notin calls
        /\ C11_Created = {}

\* the run ended on the nothing-to-release error
C11_Witness ==
    /\ C11_AtHead
    /\ wHost.releases[1].TagName = <<"1", ".", "0", ".", "1", "-", "t", "e", "s", "t", "i", "n", "g", ".", "1">>
    /\ locals.err = ErrAtHead
    /\ ret = "error"

\* the commit was resolved: the run is past the resolution of the commit
C17_Resolved == caller = "create" /\ locals.repo # <<>>

\* C17: with no explicit SHA the commit resolved is the tip of the default
\* branch and the target is empty; with an explicit SHA the commit is resolved
\* only if the merge base of the default branch and the SHA is the SHA, and then
\* the target is the SHA; a SHA off the default branch ends the run with an
\* error, the not-on-default-branch error when the platform answered, and no
\* release is asked for; every release asked for carries the target resolved
C17_Target ==
    caller = "create" =>
        LET sha == flags.releaseRefsFlag IN
        /\ C17_Resolved =>
              IF sha = ""
              THEN locals.commitInfo = [SHA |-> MainSHA, Target |-> ""]
              ELSE /\ MergeBaseOf(sha) = sha
                   /\ locals.commitInfo = [SHA |-> sha, Target |-> sha]
        /\ (sha # "" /\ MergeBaseOf(sha) # sha) =>
              /\ C11_Created = {}
              /\ pc = "done" =>
                    /\ ret = "error"
                    /\ locals.err \in {ErrNS8Name, ErrInvalidRepo, ErrRepoInfo,
                                       ErrMergeBase, ErrNotOnDefault}
        /\ \A i \in C11_Created : requests[i].target = sha

\* a release was asked for with the explicit commit as its target
C17_Witness ==
    /\ caller = "create"
    /\ flags.releaseRefsFlag = "sha-old"
    /\ \E i \in C11_Created : requests[i].target = "sha-old"

\* the name given on the command line, empty when there is none
C18_Given == IF Len(flags.args) > 0 THEN flags.args[1] ELSE <<>>

\* C18: every release create asks for has a name that is not empty and
\* follows the grammar of semantic versioning, given or generated; a run with
\* no name and no --testing, or with a name off the grammar, ends with an error
\* and asks for no release
C18_SemverName ==
    caller = "create" =>
        /\ \A i \in C11_Created :
              /\ requests[i].tag # <<>>
              /\ C12_Grammar(requests[i].tag)
        /\ \/ C18_Given = <<>> /\ ~flags.testingFlag
           \/ C18_Given # <<>> /\ ~C12_Grammar(C18_Given)
           => /\ C11_Created = {}
              /\ pc = "done" => ret = "error"

\* a release was asked for under a generated name
C18_Witness ==
    /\ caller = "create"
    /\ C18_Given = <<>>
    /\ \E i \in C11_Created : requests[i].tag = <<"1", ".", "0", ".", "1", "-", "t", "e", "s", "t", "i", "n", "g", ".", "2">>

\* the numbers of the issues the lines of notes are about
C19_Bullets(notes) == {notes[i].issue : i \in 2..Len(notes)}

\* C19: a run of create that has a valid name asks for the release whatever
\* became of the linked-issue notes: the scan may have failed, pull requests
\* or issues may not have been fetched, no issue may be linked; the release is
\* asked for without a notes input when the notes are empty; notes that are
\* not empty hold, after the heading, one line for each issue number whose
\* title was fetched, and no other line
C19_NotesNeverFail ==
    caller = "create" =>
        /\ (locals.releaseName # <<>> /\ pc = "done") =>
              /\ Cardinality(C11_Created) = 1
              /\ ret = "error" => locals.err = ErrCreate
        /\ \A i \in C11_Created :
              LET r == requests[i] IN
              /\ r.notesReader = (r.notes # <<>>)
              /\ (locals.notesErr # ErrNil \/ locals.fetched = {}) => r.notes = <<>>
              /\ r.notes # <<>> =>
                    /\ r.notes[1] = NotesHeading
                    /\ Len(r.notes) = 1 + Cardinality(locals.fetched)
                    /\ C19_Bullets(r.notes) = locals.fetched
              /\ locals.fetched # {} => r.notes # <<>>

\* two pull requests were scanned, the title of one issue was fetched, and
\* the release was created with one line of notes
C19_Witness ==
    /\ caller = "create"
    /\ Len(locals.prNumbers) = 2
    /\ locals.fetched = {2}
    /\ ret = "nil"
    /\ \E i \in C11_Created : Len(requests[i].notes) = 2

\* the scan failed and the release was created all the same, without notes
C19_ScanFailed ==
    /\ caller = "create"
    /\ locals.notesErr = ErrCompare
    /\ ret = "nil"
    /\ \E i \in C11_Created : ~requests[i].notesReader

\* the comments asked of the platform so far
C20_Comments == {i \in DOMAIN requests : requests[i].op = "CreateIssueComment"}

\* C20: every comment is posted on an issue whose fetch, made just before,
\* answered with a state that is not closed, and the issue is not closed: no
\* linked issue and no parent issue gets a comment when its state is closed,
\* and a linked issue whose fetch failed gets none as a linked issue
C20_OnlyOpenIssues ==
    caller = "comment" =>
        \A i \in C20_Comments :
            LET r == requests[i] IN
            /\ wHost.issueState[r.number] \notin {"closed", "CLOSED"}
            /\ r.checked = "open"
            /\ r.role = "linked" =>
                  /\ r.number \in DOMAIN locals.seen
                  /\ locals.seen[r.number] = "open"

\* issue 1 is closed and linked, issue 2 is open and linked: only issue 2 got
\* a comment, and the command returned
C20_Witness ==
    /\ caller = "comment"
    /\ ret = "nil"
    /\ locals.issueMap = {1, 2}
    /\ wHost.issueState = [n \in IssueNumbers |-> IF n = 1 THEN "closed" ELSE "open"]
    /\ locals.seen[1] = "closed"
    /\ {requests[i].number : i \in C20_Comments} = {2}

(* C21: the check command is read-only. In every state of every run of
   check, whatever the outcome so far, none of the operations the command has
   invoked on the platform is a mutating one (create release, delete
   release, create issue comment), and no write was asked of the platform. *)
C21_CheckReadOnly ==
    caller = "check" =>
        /\ calls \cap MutatingOperations = {}
        /\ requests = <<>>

\* a check run that went through the scan, the issues and the report
C21_Witness ==
    /\ caller = "check"
    /\ pc = "done"
    /\ ret = "nil"
    /\ MsgSummary \in output
    /\ {"CompareCommits", "GetPullRequestsForCommit", "GetPullRequest",
        "GetIssue", "GetParentIssueNumber"} \subseteq calls

\* the text of form f ('owner/issues/', 'owner/name#',
\* 'https://github.com/owner/name/issues/') for issuesRepo = owner/name
C22_Slash(s) == {i \in DOMAIN s : s[i] = "/"}

C22_Owner(s) == SubSeq(s, 1, (CHOOSE i \in C22_Slash(s) : TRUE) - 1)

C22_Forms(s) ==
    { C22_Owner(s) \o <<"/", "i", "s", "s", "u", "e", "s", "/">>,
      s \o <<"#">>,
      <<"h", "t", "t", "p", "s", ":", "/", "/", "g", "i", "t", "h", "u", "b", ".", "c", "o", "m", "/">> \o s \o <<"/", "i", "s", "s", "u", "e", "s", "/">> }

\* positions of the body where text stands, followed by a digit; with loose,
\* a "." of text stands for any character
C22_Places(body, text, loose) ==
    {i \in 1..(Len(body) - Len(text)) :
        /\ \A k \in DOMAIN text :
              \/ text[k] = body[i + k - 1]
              \/ loose /\ text[k] = "."
        /\ body[i + Len(text)] \in Range(Digits)}

\* the number written at position i of the body: all the digits that follow
RECURSIVE C22_Number(_, _, _)
C22_Number(body, i, acc) ==
    IF i > Len(body) \/ body[i] \notin Range(Digits) THEN acc
    ELSE C22_Number(body, i + 1,
            10 * acc + (CHOOSE d \in 0..9 : Digits[d + 1] = body[i]))

\* the references of the body: <<form, position, number>>
C22_References(body, repo, loose) ==
    UNION {{<<text, i, C22_Number(body, i + Len(text), 0)>> :
                i \in C22_Places(body, text, loose)} : text \in C22_Forms(repo)}

C22_Example ==
    <<"F", "i", "x", "e", "s", " ", "N", "e", "t", "h", "S", "e", "r", "v", "e", "r", "/", "d", "e", "v", "#", "4", "2", " ", "a", "n", "d", " ", "s", "e", "e", " ", "h", "t", "t", "p", "s", ":", "/", "/", "g", "i", "t", "h", "u", "b", ".", "c", "o", "m", "/", "N", "e", "t", "h", "S", "e", "r", "v", "e", "r", "/", "d", "e", "v", "/", "i", "s", "s", "u", "e", "s", "/", "4", "3">>

(* C22: GetLinkedIssues(body, issuesRepo) returns, for issuesRepo =
   owner/name, every issue number (a positive number) the body refers to in
   one of the forms owner/issues/N, owner/name#N and
   https://github.com/owner/name/issues/N, as many times at least as the body
   refers to it; for the body "Fixes NethServer/dev#42 and see
   https://github.com/NethServer/dev/issues/43" and NethServer/dev the
   result holds 42 and 43; the result is the empty list, and still a list,
   when issuesRepo does not hold exactly one "/" or when nothing matches. *)
C22_LinkedIssues ==
    fnRes # NoResult /\ fnRes.fn = "GetLinkedIssues" =>
        LET body == fnArg.prBody
            repo == fnArg.issuesRepo
            out == fnRes.out IN
        /\ out \in Seq(Nat)
        /\ IF Cardinality(C22_Slash(repo)) # 1
           THEN out = <<>>
           ELSE /\ \A r \in C22_References(body, repo, FALSE) :
                      r[3] > 0 =>
                          Count(out, r[3]) >=
                              Cardinality({q \in C22_References(body, repo, FALSE) :
                                              q[3] = r[3]})
                /\ C22_References(body, repo, TRUE) = {} => out = <<>>
                /\ body = C22_Example /\ repo = <<"N", "e", "t", "h", "S", "e", "r", "v", "e", "r", "/", "d", "e", "v">> =>
                      {42, 43} \subseteq Range(out)

\* the body of the example was scanned, and a body that names an issue twice
C22_Witness ==
    /\ fnRes # NoResult
    /\ fnRes.fn = "GetLinkedIssues"
    /\ fnArg.issuesRepo = <<"N", "e", "t", "h", "S", "e", "r", "v", "e", "r", "/", "d", "e", "v">>
    /\ fnArg.prBody = C22_Example
    /\ fnRes.out = <<42, 43>>

\* the child lists of the map in which issue n stands, once per occurrence
C23_Attached(n) ==
    {<<p, i>> \in (DOMAIN Issues) \X (1..MaxIssue) :
        i \in DOMAIN Issues[p].Children /\ Issues[p].Children[i] = n}

(* C23: after any sequence of ProcessIssue calls of one check run, in any
   order of discovery and with any pattern of failed fetches, every issue of
   the map with a parent number recorded stands in exactly one child list,
   the one of its parent, and stands there once. *)
C23_ChildrenAttached ==
    caller = "check" /\ stack = <<>> /\ ret # "crash" =>
        \A n \in DOMAIN Issues :
            Issues[n].ParentNumber > 0 =>
                /\ Issues[n].ParentNumber \in DOMAIN Issues
                /\ \E i \in 1..MaxIssue : C23_Attached(n) = {<<Issues[n].ParentNumber, i>>}

\* a report was printed from a map where an issue records a parent that is
\* not in the map: the fetch of the parent failed
C23_Detached ==
    /\ caller = "check"
    /\ Reported
    /\ ret = "nil"
    /\ \E n \in DOMAIN Issues :
          /\ Issues[n].ParentNumber > 0
          /\ Issues[n].ParentNumber \notin DOMAIN Issues
          /\ C23_Attached(n) = {}

(* C24: issue processing terminates for every parent relation the platform
   reports, cyclic ones included: during the upward chase no issue is entered
   by ProcessIssue while an activation for the same issue is still open (the
   revisit stops the ascent), so the run never ends inside ProcessIssue by
   exhausting the stack. *)
C24_AscentStops ==
    caller = "check" =>
        /\ \A i, j \in DOMAIN stack : i < j => stack[i].n # stack[j].n
        /\ ~(ret = "crash" /\ stack # <<>>)

\* an issue that is its own parent, or two issues each the parent of the
\* other: the recursion went on until the program died inside ProcessIssue
C24_Runaway ==
    /\ caller = "check"
    /\ ret = "crash"
    /\ Len(stack) = StackLimit
    /\ \E i, j \in DOMAIN stack : i < j /\ stack[i].n = stack[j].n
    /\ \A i \in DOMAIN stack : stack[i].n \notin DOMAIN Issues

\* the state string equals "closed" when letter case is ignored
C25_EqualFold(state) == state \in {"closed", "CLOSED", "Closed"}

\* what check and comment made of the fetched issue
C25_TreatedClosed ==
    IF fnRes.fn = "IsClosed" THEN fnRes.out ELSE fnRes.out.Status = EmojiClosedIssue

C25_Treated == fnRes # NoResult /\ fnRes.fn \in {"IsClosed", "NewIssueInfo"}

\* C25 as stated: an issue is treated as closed if and only if its state
\* string equals "closed" ignoring letter case, by check and by comment
C25_ClosedAnyCase ==
    C25_Treated => (C25_TreatedClosed <=> C25_EqualFold(fnArg.state))

(* C25, amended: an issue is treated as closed if and only if its state
   string is exactly "closed" or "CLOSED", and as open otherwise (so a
   spelling of mixed case such as "Closed" is treated as open); this holds
   both for the status check shows and for the test that gates the comment. *)
C25_ClosedTwoSpellings ==
    C25_Treated =>
        /\ C25_TreatedClosed <=> fnArg.state \in {"closed", "CLOSED"}
        /\ fnRes.fn = "NewIssueInfo" =>
              fnRes.out.Status = IF fnArg.state \in {"closed", "CLOSED"}
                                 THEN EmojiClosedIssue ELSE EmojiOpenIssue

\* the state string "Closed" passed the gate of comment as an open issue
C25_Witness ==
    /\ fnRes # NoResult
    /\ fnRes.fn = "IsClosed"
    /\ fnArg.state = "Closed"
    /\ fnRes.out = FALSE

(* C26: at the end of a check run the reference count of every issue of the
   map equals the number of pull requests of the scanned range that name the
   issue in their body: an issue named several times in one body counts once
   for that pull request, and an issue that is in the map only as the parent
   of a named issue counts no pull request. *)
C26_RefCountIsPRCount ==
    caller = "check" /\ Reported =>
        \A n \in DOMAIN Issues : Issues[n].RefCount = linkedBy[n]

\* a report where an issue no pull request names, in the map as a parent,
\* has the reference count 1
C26_ParentCounted ==
    /\ caller = "check"
    /\ Reported
    /\ ret = "nil"
    /\ \E n \in DOMAIN Issues :
          /\ linkedBy[n] = 0
          /\ Issues[n].RefCount = 1
          /\ Len(Issues[n].Children) > 0

\* the comments that exist on issue n after the requests made so far
C27_CommentsOn(n) ==
    {i \in DOMAIN requests :
        /\ requests[i].op = "CreateIssueComment"
        /\ requests[i].number = n
        /\ requests[i].created}

(* C27: in one run of the comment command every issue receives at most one
   release comment, a parent shared by several linked issues and an issue
   that is both linked from a pull request and the parent of another linked
   issue included. *)
C27_OneCommentPerIssue ==
    caller = "comment" =>
        \A n \in IssueNumbers : Cardinality(C27_CommentsOn(n)) <= 1

\* issues 1 and 2 are linked and open, issue 2 is the parent of issue 1:
\* the run ended with two comments on issue 2, one as linked issue and one
\* as parent
C27_TwiceCommented ==
    /\ caller = "comment"
    /\ pc = "done"
    /\ ret = "nil"
    /\ locals.issueMap = {1, 2}
    /\ {requests[i].role : i \in C27_CommentsOn(2)} = {"linked", "parent"}
    /\ locals.commentedCount = 3

(* C28: at the end of a comment run the number of comments reported as
   posted equals the number of comments created on the platform during the
   run: a comment that was created, but whose URL could not be looked up
   afterwards, is counted too. *)
C28_CountIsCreated ==
    caller = "comment" /\ pc = "done" /\ ret = "nil"
        /\ output \cap {MsgPosted, MsgNoOpen} # {} =>
        locals.commentedCount =
            Cardinality(UNION {C27_CommentsOn(n) : n \in IssueNumbers})

\* "No open issues to comment on." was printed by a run that created a comment
C28_Uncounted ==
    /\ caller = "comment"
    /\ pc = "done"
    /\ ret = "nil"
    /\ MsgNoOpen \in output
    /\ locals.commentedCount = 0
    /\ \E n \in locals.issueMap : C27_CommentsOn(n) # {}

\* commit c is listed among the orphan commits of the report
C29_Orphan(c) == Count(OrphanCommits, CommitURL(c)) > 0

\* C29 as stated: in a check report, a commit whose pull requests were
\* included in the scanned pull request set is never listed as an orphan
\* commit
C29_ScannedNeverOrphan ==
    caller = "check" /\ Reported =>
        \A c \in scanIncluded : ~C29_Orphan(c)

(* C29, amended: in a check report, a commit whose pull requests were
   included in the scanned pull request set is not listed as an orphan
   commit when the second lookup for the commit, the one of the marking
   loop, answered; the two lookups fail independently, and when the second
   one failed the commit is listed as an orphan although its pull requests
   were scanned. *)
C29_ScannedOrphanOnFailure ==
    caller = "check" /\ Reported =>
        \A c \in scanIncluded :
            /\ markSeen[c] \in {"prs", "failed"}
            /\ markSeen[c] = "prs" => ~C29_Orphan(c)
            /\ markSeen[c] = "failed" => C29_Orphan(c)

\* a report on two commits whose pull requests were both scanned: the second
\* lookup answered for one, which is no orphan, and failed for the other,
\* which is listed as an orphan
C29_Witness ==
    /\ caller = "check"
    /\ Reported
    /\ ret = "nil"
    /\ scanIncluded = {1, 2}
    /\ \E c, d \in scanIncluded :
          /\ markSeen[c] = "prs" /\ ~C29_Orphan(c)
          /\ markSeen[d] = "failed" /\ C29_Orphan(d)

\* the issues named in the body of a fetched pull request of the range
C30_Linked == {n \in IssueNumbers : linkedBy[n] > 0}

\* issue n was observed verified, or is in the map with children
C30_Satisfied(n) ==
    /\ n \in DOMAIN Issues
    /\ Len(Issues[n].Children) = 0 => Issues[n].Progress = EmojiVerified

\* C30 as stated: check never reports "ready to release" while some issue
\* linked from a pull request of the scanned range has not been observed
\* verified (unless it has children in the map): a scanned pull request
\* whose details could not be fetched, or a linked issue whose details could
\* not be fetched, prevents the verdict
C30_FailuresPreventReady ==
    caller = "check" /\ Reported /\ MsgReady \in output =>
        /\ \A i \in DOMAIN prNumbers : prSeen[prNumbers[i]] # "failed"
        /\ MsgWarning \notin output
        /\ \A n \in C30_Linked : C30_Satisfied(n)

(* C30, amended: check never reports "ready to release" while some issue
   linked from a pull request of the scanned range is in the issue map
   without children and was not observed with the progress tier verified; a
   scanned pull request whose details could not be fetched, or a linked
   issue whose details could not be fetched, is skipped and does not
   prevent the ready verdict. *)
C30_ReadyOverFetched ==
    caller = "check" /\ Reported /\ MsgReady \in output =>
        \A n \in C30_Linked : n \in DOMAIN Issues => C30_Satisfied(n)

\* "ready to release" was printed by a run where one pull request could not
\* be fetched, one linked issue could not be fetched (a warning was printed)
\* and the other linked issue is verified
C30_Witness ==
    /\ caller = "check"
    /\ Reported
    /\ MsgReady \in output
    /\ MsgWarning \in output
    /\ \E i \in DOMAIN prNumbers : prSeen[prNumbers[i]] = "failed"
    /\ \E n, m \in C30_Linked :
          /\ n \notin DOMAIN Issues
          /\ m \in DOMAIN Issues
          /\ Issues[m].Progress = EmojiVerified
====
